---------------------------- MODULE Spec2Model ----------------------------
(***************************************************************************)
(* Model of the eibs7-controller monitoring and control loop (src/main.go) *)
(* and of the ECHONET Lite helpers it uses, the frame codec included.      *)
(* Spec is the control loop; SpecTID is the sequence of transactions of a  *)
(* run of any length; SpecCalls applies single functions to bounded sets   *)
(* of inputs; SpecRun and SpecRunFair are the control loop with every      *)
(* value of the -loop flag and configurations whose window times do not    *)
(* parse; SpecWrap is the control loop with a charge window that crosses   *)
(* midnight; SpecPort follows the UDP port through the steps of a          *)
(* transaction, and SpecSignal adds the arrival of a signal.               *)
(*                                                                         *)
(* Time is the wall clock in whole seconds since 00:00 of the day the      *)
(* process started.  A transaction that times out lasts ResponseTimeout    *)
(* seconds, every other transaction outcome is immediate.                   *)
(***************************************************************************)
EXTENDS Integers, Sequences, FiniteSets, TLC

VARIABLES
    cfg,                          \* *Config returned by loadConfig
    loopCount,                    \* the -loop flag
    i,                            \* loop index of main's for loop
    pc,                           \* position of main inside the loop
    now,                          \* wall clock, seconds
    nextTick,                     \* time of the next tick of ticker.C
    currentTID,                   \* package variable currentTID
    lastModeChangeTime,           \* main's lastModeChangeTime
    lastChargePowerIncreaseTime,  \* main's lastChargePowerIncreaseTime
    isChargingTimePeriod,         \* per cycle: result of isChargingTime
    target,                       \* per cycle: index of the next monitoring target
    monitoringData,               \* per cycle: the snapshot map
    currentOperationMode,         \* per cycle: observed operation mode
    surplusPower,                 \* per cycle: surplus power
    sent,                         \* per cycle: the request frames handed to sendAndReceiveEchonetLiteFrame
    readTimeouts,                 \* per cycle: number of Get transactions that timed out
    lastOutcome,                  \* per cycle: outcome of the latest SetC transaction
    call                          \* a function applied on its own: its name, arguments and result

vars == <<cfg, loopCount, i, pc, now, nextTick, currentTID, lastModeChangeTime,
          lastChargePowerIncreaseTime, isChargingTimePeriod, target,
          monitoringData, currentOperationMode, surplusPower, sent,
          readTimeouts, lastOutcome, call>>

----------------------------------------------------------------------------
(* Bounds of the model *)

\* number of cycles the loop is run for (the -loop flag)
MaxLoops == 2

----------------------------------------------------------------------------
(* Program constants *)

ESVSetC == 97
ESVGet == 98
ESVSetC_SNA == 81
ESVGet_SNA == 82
ESVSet_Res == 113
ESVGet_Res == 114

\* responseTimeout, in seconds
ResponseTimeout == 5

\* operation mode bytes written by the control logic
ModeCharge == 66
ModeAuto == 70

\* EPCs written by the control logic
EPCOperationMode == 218
EPCChargePower == 235

\* absolute ceiling of the charge power and the surplus margin
PowerCapWatts == 3000
SurplusMarginWatts == 500

\* the zero time.Time
Never == -1

controllerEOJ == <<5, 255, 1>>
batteryEOJ == <<2, 125, 1>>

\* the targets slice of main: EOJ, EPCs, ObjectName
targets ==
    << [EOJ |-> <<2, 125, 1>>, EPCs |-> <<228, 218, 235, 211, 160>>, ObjectName |-> "Battery (027D01)"],
       [EOJ |-> <<2, 121, 1>>, EPCs |-> <<224>>, ObjectName |-> "PV (027901)"],
       [EOJ |-> <<2, 135, 1>>, EPCs |-> <<198>>, ObjectName |-> "Meter (028701)"],
       [EOJ |-> <<2, 165, 1>>, EPCs |-> <<231>>, ObjectName |-> "PCS (02A501)"] >>


----------------------------------------------------------------------------
(* Helpers *)

\* variant of BigEndianUint: two bytes are read low byte first
BigEndianUint_LittleEndian16(b) ==
    IF Len(b) = 1 THEN b[1]
    ELSE IF Len(b) = 2 THEN b[2] * 256 + b[1]
    ELSE b[1] * 16777216 + b[2] * 65536 + b[3] * 256 + b[4]

\* encoding/binary BigEndian decoding of a byte sequence, unsigned
BigEndianUint(b) ==
    IF Len(b) = 1 THEN b[1]
    ELSE IF Len(b) = 2 THEN b[1] * 256 + b[2]
    ELSE b[1] * 16777216 + b[2] * 65536 + b[3] * 256 + b[4]

\* int32(binary.BigEndian.Uint32(b)): two's complement reading of four bytes
BigEndianInt32(b) ==
    IF b[1] >= 128
    THEN (b[1] - 256) * 16777216 + b[2] * 65536 + b[3] * 256 + b[4]
    ELSE BigEndianUint(b)

\* binary.BigEndian.PutUint32(powerBytes, uint32(power)) for an int power
\* in -2^31 .. 2^31-1: the two's complement bytes of power
PutUint32(power) ==
    LET lo == power % 16777216
        hi == (power - lo) \div 16777216
    IN  << hi % 256, lo \div 65536, (lo \div 256) % 256, lo % 256 >>

\* property name of an (EOJ, EPC) pair; the names of the source are written
\* in English here, and the formatted name of a pair that is not registered
\* shows the numbers in decimal
getPropertyName(deoj, epc) ==
    IF deoj[1] = 2 /\ deoj[2] = 125 /\ epc = 228 THEN "RemainingCapacity3"
    ELSE IF deoj[1] = 2 /\ deoj[2] = 125 /\ epc = 218 THEN "OperationModeSetting"
    ELSE IF deoj[1] = 2 /\ deoj[2] = 125 /\ epc = 235 THEN "ChargingPowerSetting"
    ELSE IF deoj[1] = 2 /\ deoj[2] = 125 /\ epc = 211 THEN "InstantaneousChargeDischargePower"
    ELSE IF deoj[1] = 2 /\ deoj[2] = 125 /\ epc = 160 THEN "ACEffectiveCapacityCharge"
    ELSE IF deoj[1] = 2 /\ deoj[2] = 121 /\ epc = 224 THEN "InstantaneousGeneratedPower"
    ELSE IF deoj[1] = 2 /\ deoj[2] = 135 /\ epc = 198 THEN "InstantaneousPower"
    ELSE IF deoj[1] = 2 /\ deoj[2] = 165 /\ epc = 231 THEN "InstantaneousPower"
    ELSE "Unknown (DEOJ: " \o ToString(deoj[1]) \o "," \o ToString(deoj[2])
            \o ", EPC: " \o ToString(epc) \o ")"

\* a decoded value: its Go dynamic type and its number (raw bytes for "bytes")
Typed(t, v) == [type |-> t, v |-> v]

\* decodeEDT: the decoded value (or nil, or the raw bytes), the name, the error
decodeEDT(deoj, epc, edt) ==
    LET propName == getPropertyName(deoj, epc)
        pdc == Len(edt)
        Result(t, want, v) ==
            IF pdc # want
            THEN [value |-> Typed("bytes", edt), name |-> propName, err |-> TRUE]
            ELSE [value |-> Typed(t, v), name |-> propName, err |-> FALSE]
    IN  IF edt = << >>
        THEN [value |-> Typed("nil", 0), name |-> propName, err |-> FALSE]
        ELSE IF deoj[1] = 2 /\ deoj[2] = 125 /\ epc = 228
        THEN Result("uint8", 1, edt[1])
        ELSE IF deoj[1] = 2 /\ deoj[2] = 125 /\ epc = 218
        THEN Result("uint8", 1, edt[1])
        ELSE IF deoj[1] = 2 /\ deoj[2] = 125 /\ epc = 235
        THEN Result("uint32", 4, BigEndianUint(edt))
        ELSE IF deoj[1] = 2 /\ deoj[2] = 125 /\ epc = 211
        THEN Result("int32", 4, BigEndianInt32(edt))
        ELSE IF deoj[1] = 2 /\ deoj[2] = 125 /\ epc = 160
        THEN Result("uint32", 4, BigEndianUint(edt))
        ELSE IF deoj[1] = 2 /\ deoj[2] = 121 /\ epc = 224
        THEN Result("uint16", 2, BigEndianUint(edt))
        ELSE IF deoj[1] = 2 /\ deoj[2] = 135 /\ epc = 198
        THEN Result("int32", 4, BigEndianInt32(edt))
        ELSE IF deoj[1] = 2 /\ deoj[2] = 165 /\ epc = 231
        THEN Result("int32", 4, BigEndianInt32(edt))
        ELSE [value |-> Typed("bytes", edt), name |-> propName, err |-> TRUE]

\* time.Parse("15:04", s) of a time-of-day text s = [hh, mm]: minutes since
\* 00:00, or an error when a field is out of range
ParseClock(s) ==
    IF s.hh \in 0..23 /\ s.mm \in 0..59
    THEN [ok |-> TRUE, minutes |-> s.hh * 60 + s.mm]
    ELSE [ok |-> FALSE, minutes |-> 0]

\* time.Parse(timeFormat, now.Format(timeFormat)) at wall clock t: minutes since 00:00
ClockOf(t) == (t \div 60) % 1440

\* mutant of isChargingTime: a window that ends before it starts is not
\* taken to cross midnight
isChargingTime_SameDay(startTimeStr, endTimeStr, t) ==
    LET currentTime == ClockOf(t)
        startTime == ParseClock(startTimeStr)
        endTime == ParseClock(endTimeStr)
    IN  IF ~startTime.ok \/ ~endTime.ok
        THEN [result |-> FALSE, err |-> TRUE]
        ELSE [result |-> (currentTime >= startTime.minutes /\ currentTime < endTime.minutes),
              err |-> FALSE]

\* isChargingTime at wall clock t
isChargingTime(startTimeStr, endTimeStr, t) ==
    LET currentTime == ClockOf(t)
        startTime == ParseClock(startTimeStr)
        endTime == ParseClock(endTimeStr)
    IN  IF ~startTime.ok \/ ~endTime.ok
        THEN [result |-> FALSE, err |-> TRUE]
        ELSE IF endTime.minutes < startTime.minutes
        THEN [result |-> (currentTime >= startTime.minutes \/ currentTime < endTime.minutes),
              err |-> FALSE]
        ELSE [result |-> (currentTime >= startTime.minutes /\ currentTime < endTime.minutes),
              err |-> FALSE]

\* mutant of getNextTID: the value after 0xFFFF is not replaced
getNextTID_NoSkip(tid) == (tid + 1) % 65536

\* getNextTID: the new value of currentTID, which is also the TID returned
getNextTID(tid) ==
    LET next == (tid + 1) % 65536
    IN  IF next = 0 THEN 1 ELSE next

\* int(x / y) of Go for y > 0: truncation toward zero
TruncDiv(x, y) == IF x >= 0 THEN x \div y ELSE -((-x) \div y)

\* targetChargePower of main before the cap: int(targetChargeAmount * 60 / remainingMinutes)
\* with targetChargeAmount = acCapacity * (1.0 - batteryRemaining/100.0)
RequiredChargePower(acCapacity, batteryRemaining, remainingMinutes) ==
    TruncDiv(acCapacity * (100 - batteryRemaining) * 60, 100 * remainingMinutes)

\* powerCap of main: the smaller of 3000 and surplus - 500, not below 0
PowerCap(surplus) ==
    LET c == IF surplus - SurplusMarginWatts < PowerCapWatts
             THEN surplus - SurplusMarginWatts ELSE PowerCapWatts
    IN  IF c < 0 THEN 0 ELSE c

\* targetChargePower of main after the cap
TargetChargePower(acCapacity, batteryRemaining, remainingMinutes, surplus) ==
    LET p == RequiredChargePower(acCapacity, batteryRemaining, remainingMinutes)
    IN  IF p > PowerCap(surplus) THEN PowerCap(surplus) ELSE p

\* time.Since(t) < minutes * time.Minute at wall clock n; time.Since of the
\* zero time saturates at the largest Duration, which is below no interval
SinceLessThan(t, minutes, n) == t # Never /\ n - t < minutes * 60


----------------------------------------------------------------------------
(* What the devices and the network may answer *)

\* a transaction that got no usable datagram: the receive deadline passed, the
\* socket or the send failed, or the datagram did not unmarshal
Failures == {[kind |-> "timeout"], [kind |-> "error"], [kind |-> "undecodable"]}

\* what is recorded of an outcome: its kind and, for a frame, its ESV
Outcome(o) == [kind |-> o.kind, esv |-> IF o.kind = "frame" THEN o.frame.ESV ELSE 0]
NoOutcome == [kind |-> "none", esv |-> 0]

\* duration of a transaction with outcome o
Elapsed(o) == IF o.kind = "timeout" THEN ResponseTimeout ELSE 0

Prop(epc, edt) == [EPC |-> epc, PDC |-> Len(edt), EDT |-> edt]

\* EDTs the devices may report; << >> is a property answered with PDC = 0.
\* Modes: charge, auto, standby.  Set-points 0 W and 1500 W, capacity 100 Wh,
\* remaining 50 % (and 125 %: 0xE4 is a byte that is not range checked),
\* PV 100 W and 2000 W, grid import 300 W, PCS 0 W.
ModeEDTs == {<<66>>, <<70>>, <<68>>}
SetpointEDTs == {PutUint32(0), PutUint32(1500)}
PVEDTs == {<<0, 100>>, <<7, 208>>}
GridEDTs == {PutUint32(300)}
PCSEDTs == {PutUint32(0)}

BatteryProps(r, m, s, c) ==
    << Prop(228, r), Prop(218, m), Prop(235, s), Prop(211, PutUint32(0)), Prop(160, c) >>

\* property lists of the Get_Res frames target k may answer with
Answers(k) ==
    IF k = 1
    THEN { BatteryProps(<<50>>, m, s, PutUint32(100)) : m \in ModeEDTs, s \in SetpointEDTs }
         \cup { BatteryProps(<< >>, <<66>>, PutUint32(1500), PutUint32(100)),
                BatteryProps(<<50>>, <<66>>, << >>, PutUint32(100)),
                BatteryProps(<<50>>, <<66>>, PutUint32(1500), << >>),
                BatteryProps(<<125>>, <<66>>, PutUint32(1500), PutUint32(100)) }
    ELSE IF k = 2 THEN { << Prop(224, e) >> : e \in PVEDTs }
    ELSE IF k = 3 THEN { << Prop(198, e) >> : e \in GridEDTs }
    ELSE { << Prop(231, e) >> : e \in PCSEDTs }

Frame(tid, seoj, deoj, esv, props) ==
    [EHD1 |-> 16, EHD2 |-> 129, TID |-> tid, SEOJ |-> seoj, DEOJ |-> deoj,
     ESV |-> esv, OPC |-> Len(props), Properties |-> props]

\* outcomes of the Get transaction of target k sent with TID tid
ReadOutcomes(k, tid) ==
    Failures
    \cup { [kind |-> "frame", frame |-> Frame(tid, targets[k].EOJ, controllerEOJ, ESVGet_Res, p)] :
             p \in Answers(k) }
    \cup { [kind |-> "frame", frame |-> Frame(tid, targets[k].EOJ, controllerEOJ, esv, << >>)] :
             esv \in {ESVGet_SNA, ESVSet_Res} }

\* outcomes of a SetC transaction sent with TID tid
WriteOutcomes(tid) ==
    Failures
    \cup { [kind |-> "frame", frame |-> Frame(tid, batteryEOJ, controllerEOJ, esv, << >>)] :
             esv \in {ESVSet_Res, ESVSetC_SNA, ESVGet_Res} }

----------------------------------------------------------------------------
(* The frame codec *)

\* the constant EHD1 of ECHONET Lite, and the shortest frame
EchonetLiteEHD1 == 16
minLength == 12

\* the bytes MarshalBinary writes for the properties from index n on, or an
\* error.  Only an EDT shorter than a positive PDC is refused; of a longer EDT
\* the first PDC bytes are written.
RECURSIVE MarshalProperties(_, _)
MarshalProperties(props, n) ==
    IF n > Len(props) THEN [err |-> FALSE, bytes |-> << >>]
    ELSE LET prop == props[n]
             rest == MarshalProperties(props, n + 1)
         IN  IF prop.PDC > 0 /\ Len(prop.EDT) < prop.PDC
             THEN [err |-> TRUE, bytes |-> << >>]
             ELSE IF rest.err THEN rest
             ELSE [err |-> FALSE,
                   bytes |-> <<prop.EPC, prop.PDC>> \o SubSeq(prop.EDT, 1, prop.PDC) \o rest.bytes]

\* mutant of MarshalBinary: the TID is written low byte first
MarshalBinary_LittleEndianTID(f) ==
    LET props == MarshalProperties(f.Properties, 1)
    IN  IF props.err THEN [err |-> TRUE, bytes |-> << >>]
        ELSE [err |-> FALSE,
              bytes |-> <<EchonetLiteEHD1, f.EHD2, f.TID % 256, f.TID \div 256>>
                        \o f.SEOJ \o f.DEOJ \o <<f.ESV, f.OPC>> \o props.bytes]

\* Frame.MarshalBinary: the bytes, or an error and no bytes.  EHD1 is written
\* as the constant, OPC as the field says, and every element of Properties
MarshalBinary(f) ==
    LET props == MarshalProperties(f.Properties, 1)
    IN  IF props.err THEN [err |-> TRUE, bytes |-> << >>]
        ELSE [err |-> FALSE,
              bytes |-> <<EchonetLiteEHD1, f.EHD2, f.TID \div 256, f.TID % 256>>
                        \o f.SEOJ \o f.DEOJ \o <<f.ESV, f.OPC>> \o props.bytes]

\* reader.Read(buf) of a bytes.Reader at position pos (the next byte is
\* data[pos]) into a zeroed buffer of want > 0 bytes: io.EOF when nothing is
\* left, otherwise the bytes that are left, at most want, and no error
ReaderRead(data, pos, want) ==
    IF pos > Len(data) THEN [err |-> TRUE, n |-> 0, buf |-> [k \in 1..want |-> 0]]
    ELSE LET n == IF Len(data) - pos + 1 < want THEN Len(data) - pos + 1 ELSE want
         IN  [err |-> FALSE, n |-> n,
              buf |-> [k \in 1..want |-> IF k <= n THEN data[pos + k - 1] ELSE 0]]

\* the property loop of UnmarshalBinary: count properties are still to be read
\* from position pos, props are read already
RECURSIVE UnmarshalProperties(_, _, _, _)
UnmarshalProperties(data, pos, count, props) ==
    IF count = 0 THEN [err |-> FALSE, props |-> props]
    ELSE IF pos > Len(data) \/ pos + 1 > Len(data) THEN [err |-> TRUE, props |-> props]
    ELSE LET epc == data[pos]
             pdc == data[pos + 1]
             edt == ReaderRead(data, pos + 2, pdc)
         IN  IF pdc = 0
             THEN UnmarshalProperties(data, pos + 2, count - 1,
                                      Append(props, [EPC |-> epc, PDC |-> 0, EDT |-> << >>]))
             ELSE IF edt.err THEN [err |-> TRUE, props |-> props]
             ELSE UnmarshalProperties(data, pos + 2 + edt.n, count - 1,
                                      Append(props, [EPC |-> epc, PDC |-> pdc, EDT |-> edt.buf]))

\* what UnmarshalBinary leaves its caller with when it returns an error: no
\* caller reads the receiver then
NoFrame == [EHD1 |-> 0]

\* mutant of UnmarshalBinary: the first byte is not compared with EHD1
UnmarshalBinary_AnyEHD1(data) ==
    IF Len(data) < minLength THEN [err |-> TRUE, frame |-> NoFrame]
    ELSE LET props == UnmarshalProperties(data, 13, data[12], << >>)
         IN  IF props.err THEN [err |-> TRUE, frame |-> NoFrame]
             ELSE [err |-> FALSE,
                   frame |-> [EHD1 |-> data[1], EHD2 |-> data[2],
                              TID |-> data[3] * 256 + data[4],
                              SEOJ |-> SubSeq(data, 5, 7), DEOJ |-> SubSeq(data, 8, 10),
                              ESV |-> data[11], OPC |-> data[12],
                              Properties |-> props.props]]

\* Frame.UnmarshalBinary: an error, or the frame read from data; bytes after
\* the last property are ignored
UnmarshalBinary(data) ==
    IF Len(data) < minLength THEN [err |-> TRUE, frame |-> NoFrame]
    ELSE IF data[1] # EchonetLiteEHD1 THEN [err |-> TRUE, frame |-> NoFrame]
    ELSE LET props == UnmarshalProperties(data, 13, data[12], << >>)
         IN  IF props.err THEN [err |-> TRUE, frame |-> NoFrame]
             ELSE [err |-> FALSE,
                   frame |-> [EHD1 |-> data[1], EHD2 |-> data[2],
                              TID |-> data[3] * 256 + data[4],
                              SEOJ |-> SubSeq(data, 5, 7), DEOJ |-> SubSeq(data, 8, 10),
                              ESV |-> data[11], OPC |-> data[12],
                              Properties |-> props.props]]

----------------------------------------------------------------------------
(* Telemetry collection *)

Key(objectName, propName) == <<objectName, propName>>

\* variant of StoreProperties: the loop stops at the first property that
\* does not decode
RECURSIVE StoreProperties_StopOnError(_, _, _, _, _)
StoreProperties_StopOnError(data, objectName, seoj, props, n) ==
    IF n > Len(props) THEN data
    ELSE LET d == decodeEDT(seoj, props[n].EPC, props[n].EDT)
         IN  IF d.err THEN data
             ELSE StoreProperties_StopOnError(
                      IF d.value.type = "nil" /\ props[n].PDC = 0
                      THEN data ELSE (Key(objectName, d.name) :> d.value) @@ data,
                      objectName, seoj, props, n + 1)

\* the for loop over responseFrame.Properties of a Get_Res: the snapshot after
\* the properties from index n on are processed
RECURSIVE StoreProperties(_, _, _, _, _)
StoreProperties(data, objectName, seoj, props, n) ==
    IF n > Len(props) THEN data
    ELSE LET d == decodeEDT(seoj, props[n].EPC, props[n].EDT)
             stored == IF d.err \/ (d.value.type = "nil" /\ props[n].PDC = 0)
                       THEN data
                       ELSE (Key(objectName, d.name) :> d.value) @@ data
         IN  StoreProperties(stored, objectName, seoj, props, n + 1)

\* currentOperationMode after the same loop
RECURSIVE ObservedMode(_, _, _, _, _)
ObservedMode(mode, objectName, seoj, props, n) ==
    IF n > Len(props) THEN mode
    ELSE LET d == decodeEDT(seoj, props[n].EPC, props[n].EDT)
             m == IF /\ ~d.err
                     /\ ~(d.value.type = "nil" /\ props[n].PDC = 0)
                     /\ objectName = targets[1].ObjectName
                     /\ props[n].EPC = EPCOperationMode
                     /\ d.value.type = "uint8"
                  THEN d.value.v ELSE mode
         IN  ObservedMode(m, objectName, seoj, props, n + 1)

\* v, ok := monitoringData[key].(type)
Has(data, key, type) == key \in DOMAIN data /\ data[key].type = type
Get(data, key, type) == IF Has(data, key, type) THEN data[key].v ELSE 0

\* variant of ProcessResponse: a response with another TID is dropped
ProcessResponse_DropMismatch(data, mode, objectName, tid, frame) ==
    IF frame.ESV = ESVGet_Res /\ frame.TID = tid
    THEN [data |-> StoreProperties(data, objectName, frame.SEOJ, frame.Properties, 1),
          mode |-> ObservedMode(mode, objectName, frame.SEOJ, frame.Properties, 1)]
    ELSE [data |-> data, mode |-> mode]

\* what main does with the response frame of the Get sent with TID tid for the
\* target objectName: a TID that differs is logged, the properties of a
\* Get_Res are decoded and stored, every other ESV is logged
ProcessResponse(data, mode, objectName, tid, frame) ==
    IF frame.ESV = ESVGet_Res
    THEN [data |-> StoreProperties(data, objectName, frame.SEOJ, frame.Properties, 1),
          mode |-> ObservedMode(mode, objectName, frame.SEOJ, frame.Properties, 1)]
    ELSE [data |-> data, mode |-> mode]

\* the Get frame main builds for target k
GetFrame(k, tid) ==
    Frame(tid, controllerEOJ, targets[k].EOJ, ESVGet,
          [n \in 1..Len(targets[k].EPCs) |-> Prop(targets[k].EPCs[n], << >>)])

\* the SetC frames of setBatteryOperationMode and setBatteryChargePower
ModeFrame(mode, tid) ==
    Frame(tid, controllerEOJ, batteryEOJ, ESVSetC, << Prop(EPCOperationMode, <<mode>>) >>)
PowerFrame(power, tid) ==
    Frame(tid, controllerEOJ, batteryEOJ, ESVSetC, << Prop(EPCChargePower, PutUint32(power)) >>)

\* mutant of WriteSucceeds: the ESV of the response is not examined
WriteSucceeds_AnyFrame(o) == o.kind = "frame"

\* mutant of WriteSucceeds: only the refusal SetC_SNA is a failure
WriteSucceeds_NotSNA(o) == o.kind = "frame" /\ o.frame.ESV # ESVSetC_SNA

\* whether a write whose transaction had outcome o returns a nil error
WriteSucceeds(o) == o.kind = "frame" /\ o.frame.ESV = ESVSet_Res


----------------------------------------------------------------------------
(* Control logic helpers *)

MaxInt32 == 2147483647
MinInt32 == -MaxInt32 - 1

\* a - b in int32 arithmetic (wraps around)
SubInt32(a, b) ==
    IF b >= 0 /\ a < MinInt32 + b THEN ((a + MaxInt32 + 1) - b) + MaxInt32 + 1
    ELSE IF b < 0 /\ a > MaxInt32 + b THEN ((a - MaxInt32 - 1) - b) - MaxInt32 - 1
    ELSE a - b

GridKey == Key(targets[3].ObjectName, "InstantaneousPower")
PCSKey == Key(targets[4].ObjectName, "InstantaneousPower")
PVKey == Key(targets[2].ObjectName, "InstantaneousGeneratedPower")
CapacityKey == Key(targets[1].ObjectName, "ACEffectiveCapacityCharge")
RatioKey == Key(targets[1].ObjectName, "RemainingCapacity3")
SetpointKey == Key(targets[1].ObjectName, "ChargingPowerSetting")
ModeKey == Key(targets[1].ObjectName, "OperationModeSetting")

\* whether the three inputs of the derived metrics are in the snapshot
MetricsAvailable(data) ==
    Has(data, GridKey, "int32") /\ Has(data, PCSKey, "int32") /\ Has(data, PVKey, "uint16")

\* surplusPower after the derived metrics block
DerivedSurplus(data) ==
    IF MetricsAvailable(data)
    THEN SubInt32(Get(data, PVKey, "uint16"),
                  SubInt32(Get(data, GridKey, "int32"), Get(data, PCSKey, "int32")))
    ELSE 0

\* mutant of InhibitActive: the interval is taken in seconds, not minutes
InhibitActive_Seconds(last, n) ==
    last # Never /\ n - last < cfg.ModeChangeInhibitMinutes

\* the mode-change inhibit test at wall clock n
InhibitActive(last, n) ==
    last # Never /\ SinceLessThan(last, cfg.ModeChangeInhibitMinutes, n)

\* mutant of IncreaseLocked: the interval is taken in seconds, not minutes
IncreaseLocked_Seconds(last, n) ==
    last # Never /\ n - last < cfg.ChargePowerUpdateIntervalMinutes

\* variant of IncreaseLocked: a timestamp that was never set counts as an
\* increase made just now
IncreaseLocked_FromStart(last, n) ==
    last = Never \/ SinceLessThan(last, cfg.ChargePowerUpdateIntervalMinutes, n)

\* the increase lockout test at wall clock n
IncreaseLocked(last, n) ==
    SinceLessThan(last, cfg.ChargePowerUpdateIntervalMinutes, n)

\* mutant of NeedsChargeMode: an observed auto mode is left alone
NeedsChargeMode_KeepAuto(mode) == mode # ModeCharge /\ mode # ModeAuto

\* whether the default-mode block writes the charge mode
NeedsChargeMode(mode) == mode # ModeCharge

\* mutant of NeedsAutoMode: the observed mode is not compared
NeedsAutoMode_Always(mode) == TRUE

\* whether the grid-import guard fires, and whether it then writes the auto mode
GuardFires(surplus) == surplus < cfg.AutoModeThresholdWatts
NeedsAutoMode(mode) == mode # ModeAuto

\* variant of RemainingMinutes: an end time that is not ahead on the same day
\* is taken to be on the next day
RemainingMinutes_NextDay(n) ==
    LET d == ParseClock(cfg.ChargeEndTime).minutes - ClockOf(n)
    IN  IF d <= 0 THEN d + 1440 ELSE d

\* remainingMinutes of main at wall clock n
RemainingMinutes(n) == ParseClock(cfg.ChargeEndTime).minutes - ClockOf(n)

\* whether the target power is computed in this cycle at wall clock n
TargetComputed(data, n) ==
    /\ Has(data, CapacityKey, "uint32")
    /\ Has(data, RatioKey, "uint8")
    /\ RemainingMinutes(n) > 0

\* the target charge power main computes at wall clock n
Target(data, surplus, n) ==
    TargetChargePower(Get(data, CapacityKey, "uint32"), Get(data, RatioKey, "uint8"),
                      RemainingMinutes(n), surplus)

\* variant of SetPointDecision: a target equal to the set-point is written too
SetPointDecision_WriteEqual(t, cur, locked) ==
    IF t > cur THEN (IF locked THEN "none" ELSE "increase")
    ELSE "decrease"

\* mutant of SetPointDecision: the lockout also holds back a decrease
SetPointDecision_LockedDecrease(t, cur, locked) ==
    IF locked \/ t = cur THEN "none"
    ELSE IF t > cur THEN "increase" ELSE "decrease"

\* which set-point write, if any, follows from target t, the observed set-point
\* cur and the state of the increase lockout
SetPointDecision(t, cur, locked) ==
    IF t > cur THEN (IF locked THEN "none" ELSE "increase")
    ELSE IF t < cur THEN "decrease"
    ELSE "none"

\* mutant of UpdatesIncreaseTime: every acknowledged set-point write counts
UpdatesIncreaseTime_AnyWrite(decision, ok) == ok

\* whether lastChargePowerIncreaseTime is set after a set-point write
UpdatesIncreaseTime(decision, ok) == decision = "increase" /\ ok

----------------------------------------------------------------------------
(* Initial state *)

Configs ==
    { [ChargeStartTime |-> [hh |-> 9, mm |-> 0],
       ChargeEndTime |-> [hh |-> 9, mm |-> 3],
       MonitorIntervalSeconds |-> 60,
       ChargePowerUpdateIntervalMinutes |-> 1,
       AutoModeThresholdWatts |-> 0,
       ModeChangeInhibitMinutes |-> 1] }

\* wall clocks at which the process may start: 09:00:00 and 09:02:50
StartClocks == {32400, 32570}

\* no function is being applied on its own
NoCall == [op |-> "none"]

\* the state of main when it enters the loop at wall clock t
ProgramStart(t) ==
    /\ cfg \in Configs
    /\ loopCount = MaxLoops
    /\ i = 0
    /\ pc = "loop"
    /\ now = t
    /\ nextTick = now + cfg.MonitorIntervalSeconds
    /\ currentTID = 0
    /\ lastModeChangeTime = Never
    /\ lastChargePowerIncreaseTime = Never
    /\ isChargingTimePeriod = FALSE
    /\ target = 1
    /\ monitoringData = << >>
    /\ currentOperationMode = 0
    /\ surplusPower = 0
    /\ sent = << >>
    /\ readTimeouts = 0
    /\ lastOutcome = NoOutcome

Init ==
    /\ \E t \in StartClocks : ProgramStart(t)
    /\ call = NoCall

----------------------------------------------------------------------------
(* Actions *)

\* a SetC transaction with request req(tid) and outcome o
Write(req, o) ==
    /\ currentTID' = getNextTID(currentTID)
    /\ sent' = Append(sent, req)
    /\ lastOutcome' = Outcome(o)
    /\ now' = now + Elapsed(o)

NoWrite == UNCHANGED <<currentTID, sent, lastOutcome, now>>

\* the end of the loop body: i++ and back to the loop condition
EndCycle == i' = i + 1 /\ pc' = "loop"

\* variant of LoopCondition: the bound is inclusive
LoopCondition_Inclusive(count, idx) == count = -1 \/ idx <= count

\* the condition of the main loop: *loopCount == -1 || i < *loopCount
LoopCondition(count, idx) == count = -1 \/ idx < count

\* variant of StartCycle: the snapshot and the observed mode of the previous
\* cycle are kept
StartCycle_KeepSnapshot ==
    /\ pc = "loop"
    /\ LoopCondition(loopCount, i)
    /\ i < MaxLoops
    /\ now' = IF i > 0 /\ nextTick > now THEN nextTick ELSE now
    /\ nextTick' = IF i = 0 THEN nextTick
                   ELSE IF nextTick >= now THEN nextTick + cfg.MonitorIntervalSeconds
                   ELSE nextTick + cfg.MonitorIntervalSeconds *
                          ((now - nextTick) \div cfg.MonitorIntervalSeconds + 1)
    /\ monitoringData' = monitoringData
    /\ surplusPower' = 0
    /\ currentOperationMode' = currentOperationMode
    /\ isChargingTimePeriod' = isChargingTime(cfg.ChargeStartTime, cfg.ChargeEndTime, now').result
    /\ target' = 1
    /\ sent' = << >>
    /\ readTimeouts' = 0
    /\ lastOutcome' = NoOutcome
    /\ pc' = "collect"
    /\ UNCHANGED <<call, cfg, loopCount, i, currentTID, lastModeChangeTime, lastChargePowerIncreaseTime>>

\* loop condition true: wait for the ticker (from the second cycle on), reset
\* the per-cycle variables and evaluate the charge window
StartCycle ==
    /\ pc = "loop"
    /\ LoopCondition(loopCount, i)
    /\ i < MaxLoops
    /\ now' = IF i > 0 /\ nextTick > now THEN nextTick ELSE now
    /\ nextTick' = IF i = 0 THEN nextTick
                   ELSE IF nextTick >= now THEN nextTick + cfg.MonitorIntervalSeconds
                   ELSE nextTick + cfg.MonitorIntervalSeconds *
                          ((now - nextTick) \div cfg.MonitorIntervalSeconds + 1)
    /\ monitoringData' = << >>
    /\ surplusPower' = 0
    /\ currentOperationMode' = 0
    /\ isChargingTimePeriod' = isChargingTime(cfg.ChargeStartTime, cfg.ChargeEndTime, now').result
    /\ target' = 1
    /\ sent' = << >>
    /\ readTimeouts' = 0
    /\ lastOutcome' = NoOutcome
    /\ pc' = "collect"
    /\ UNCHANGED <<call, cfg, loopCount, i, currentTID, lastModeChangeTime, lastChargePowerIncreaseTime>>

\* loop condition false: main returns and the variables of the loop body are gone
Exit ==
    /\ pc = "loop"
    /\ ~LoopCondition(loopCount, i)
    /\ pc' = "exit"
    /\ monitoringData' = << >>
    /\ surplusPower' = 0
    /\ currentOperationMode' = 0
    /\ sent' = << >>
    /\ readTimeouts' = 0
    /\ lastOutcome' = NoOutcome
    /\ UNCHANGED <<call, cfg, loopCount, i, now, nextTick, currentTID, lastModeChangeTime,
                   lastChargePowerIncreaseTime, isChargingTimePeriod, target>>

\* variant of NextTarget: a failed transaction ends the loop over targets
NextTarget_AbortOnError(k, o) ==
    IF o.kind # "frame" THEN [target |-> k, pc |-> "control"]
    ELSE IF k < Len(targets) THEN [target |-> k + 1, pc |-> "collect"]
    ELSE [target |-> k, pc |-> "control"]

\* variant of NextTarget: a failed transaction ends the process
NextTarget_FatalOnError(k, o) ==
    IF o.kind # "frame" THEN [target |-> k, pc |-> "exit"]
    ELSE IF k < Len(targets) THEN [target |-> k + 1, pc |-> "collect"]
    ELSE [target |-> k, pc |-> "control"]

\* where the loop over targets goes after the transaction of target k ended
\* with outcome o: every error path is a continue
NextTarget(k, o) ==
    IF k < Len(targets) THEN [target |-> k + 1, pc |-> "collect"]
    ELSE [target |-> k, pc |-> "control"]

\* one iteration of the loop over targets: the Get transaction of the target
\* and the processing of its response
Collect ==
    /\ pc = "collect"
    /\ LET tid == getNextTID(currentTID)
           name == targets[target].ObjectName
       IN  /\ currentTID' = tid
           /\ sent' = Append(sent, GetFrame(target, tid))
           /\ \E o \in ReadOutcomes(target, tid) :
                /\ now' = now + Elapsed(o)
                /\ target' = NextTarget(target, o).target
                /\ pc' = NextTarget(target, o).pc
                /\ readTimeouts' = IF o.kind = "timeout" THEN readTimeouts + 1 ELSE readTimeouts
                /\ IF o.kind = "frame"
                   THEN LET r == ProcessResponse(monitoringData, currentOperationMode, name,
                                                 tid, o.frame)
                        IN  monitoringData' = r.data /\ currentOperationMode' = r.mode
                   ELSE UNCHANGED <<monitoringData, currentOperationMode>>
    /\ UNCHANGED <<call, cfg, loopCount, i, nextTick, lastModeChangeTime, lastChargePowerIncreaseTime,
                   isChargingTimePeriod, surplusPower, lastOutcome>>

\* derived metrics, then inside the window with the inhibit active: continue
ControlInhibited ==
    /\ pc = "control"
    /\ isChargingTimePeriod
    /\ InhibitActive(lastModeChangeTime, now)
    /\ surplusPower' = DerivedSurplus(monitoringData)
    /\ EndCycle
    /\ NoWrite
    /\ UNCHANGED <<call, cfg, loopCount, nextTick, lastModeChangeTime, lastChargePowerIncreaseTime,
                   isChargingTimePeriod, target, monitoringData, currentOperationMode,
                   readTimeouts>>

\* variant of ControlDefaultMode: after the first write of the cycle the
\* telemetry is read again
ControlDefaultMode_ReadBack ==
    /\ pc = "control"
    /\ isChargingTimePeriod
    /\ ~InhibitActive(lastModeChangeTime, now)
    /\ surplusPower' = DerivedSurplus(monitoringData)
    /\ IF NeedsChargeMode(currentOperationMode)
       THEN \E o \in WriteOutcomes(getNextTID(currentTID)) :
                Write(ModeFrame(ModeCharge, getNextTID(currentTID)), o)
       ELSE NoWrite
    /\ pc' = IF NeedsChargeMode(currentOperationMode) /\ Len(sent) = Len(targets)
             THEN "collect" ELSE "guard"
    /\ target' = IF NeedsChargeMode(currentOperationMode) /\ Len(sent) = Len(targets)
                 THEN 1 ELSE target
    /\ UNCHANGED <<call, cfg, loopCount, i, nextTick, lastModeChangeTime, lastChargePowerIncreaseTime,
                   isChargingTimePeriod, monitoringData, currentOperationMode,
                   readTimeouts>>

\* derived metrics, then inside the window, inhibit not active: the default
\* mode block
ControlDefaultMode ==
    /\ pc = "control"
    /\ isChargingTimePeriod
    /\ ~InhibitActive(lastModeChangeTime, now)
    /\ surplusPower' = DerivedSurplus(monitoringData)
    /\ IF NeedsChargeMode(currentOperationMode)
       THEN \E o \in WriteOutcomes(getNextTID(currentTID)) :
                Write(ModeFrame(ModeCharge, getNextTID(currentTID)), o)
       ELSE NoWrite
    /\ pc' = "guard"
    /\ UNCHANGED <<call, cfg, loopCount, i, nextTick, lastModeChangeTime, lastChargePowerIncreaseTime,
                   isChargingTimePeriod, target, monitoringData, currentOperationMode,
                   readTimeouts>>

\* derived metrics, then outside the window: set the auto mode
ControlOutside ==
    /\ pc = "control"
    /\ ~isChargingTimePeriod
    /\ surplusPower' = DerivedSurplus(monitoringData)
    /\ IF NeedsAutoMode(currentOperationMode)
       THEN \E o \in WriteOutcomes(getNextTID(currentTID)) :
                Write(ModeFrame(ModeAuto, getNextTID(currentTID)), o)
       ELSE NoWrite
    /\ EndCycle
    /\ UNCHANGED <<call, cfg, loopCount, nextTick, lastModeChangeTime, lastChargePowerIncreaseTime,
                   isChargingTimePeriod, target, monitoringData, currentOperationMode,
                   readTimeouts>>

\* the grid-import guard
Guard ==
    /\ pc = "guard"
    /\ IF GuardFires(surplusPower) /\ NeedsAutoMode(currentOperationMode)
       THEN \E o \in WriteOutcomes(getNextTID(currentTID)) :
                /\ Write(ModeFrame(ModeAuto, getNextTID(currentTID)), o)
                /\ lastModeChangeTime' = IF WriteSucceeds(o) THEN now' ELSE lastModeChangeTime
       ELSE NoWrite /\ UNCHANGED lastModeChangeTime
    /\ pc' = "setpoint"
    /\ UNCHANGED <<call, cfg, loopCount, i, nextTick, lastChargePowerIncreaseTime,
                   isChargingTimePeriod, target, monitoringData, currentOperationMode,
                   surplusPower, readTimeouts>>

\* the target power computation and the set-point write
SetPoint ==
    /\ pc = "setpoint"
    /\ LET t == Target(monitoringData, surplusPower, now)
           decision == IF TargetComputed(monitoringData, now) /\ Has(monitoringData, SetpointKey, "uint32")
                       THEN SetPointDecision(t, Get(monitoringData, SetpointKey, "uint32"),
                                             IncreaseLocked(lastChargePowerIncreaseTime, now))
                       ELSE "none"
       IN  IF decision = "none"
           THEN NoWrite /\ UNCHANGED lastChargePowerIncreaseTime
           ELSE \E o \in WriteOutcomes(getNextTID(currentTID)) :
                  /\ Write(PowerFrame(t, getNextTID(currentTID)), o)
                  /\ lastChargePowerIncreaseTime' =
                       IF UpdatesIncreaseTime(decision, WriteSucceeds(o))
                       THEN now' ELSE lastChargePowerIncreaseTime
    /\ EndCycle
    /\ UNCHANGED <<call, cfg, loopCount, nextTick, lastModeChangeTime, isChargingTimePeriod, target,
                   monitoringData, currentOperationMode, surplusPower, readTimeouts>>

Next ==
    \/ StartCycle
    \/ Exit
    \/ Collect
    \/ ControlInhibited
    \/ ControlDefaultMode
    \/ ControlOutside
    \/ Guard
    \/ SetPoint

Spec == Init /\ [][Next]_vars

\* configurations loadConfig accepts although a window time does not parse
\* ("25:00" as the start, "09:60" as the end)
UnparseableConfigs ==
    { [ChargeStartTime |-> [hh |-> 25, mm |-> 0],
       ChargeEndTime |-> [hh |-> 9, mm |-> 3],
       MonitorIntervalSeconds |-> 60,
       ChargePowerUpdateIntervalMinutes |-> 1,
       AutoModeThresholdWatts |-> 0,
       ModeChangeInhibitMinutes |-> 1],
      [ChargeStartTime |-> [hh |-> 9, mm |-> 0],
       ChargeEndTime |-> [hh |-> 9, mm |-> 60],
       MonitorIntervalSeconds |-> 60,
       ChargePowerUpdateIntervalMinutes |-> 1,
       AutoModeThresholdWatts |-> 0,
       ModeChangeInhibitMinutes |-> 1] }

\* values of the -loop flag: the default -1 and bounded runs of no cycle, of
\* one cycle and of as many cycles as the model follows
LoopCounts == {-1, 0, 1, MaxLoops}

\* runs started at 09:01:00 with any -loop value and any accepted configuration
InitRun ==
    /\ cfg \in Configs \cup UnparseableConfigs
    /\ loopCount \in LoopCounts
    /\ i = 0
    /\ pc = "loop"
    /\ now = 32460
    /\ nextTick = now + cfg.MonitorIntervalSeconds
    /\ currentTID = 0
    /\ lastModeChangeTime = Never
    /\ lastChargePowerIncreaseTime = Never
    /\ isChargingTimePeriod = FALSE
    /\ target = 1
    /\ monitoringData = << >>
    /\ currentOperationMode = 0
    /\ surplusPower = 0
    /\ sent = << >>
    /\ readTimeouts = 0
    /\ lastOutcome = NoOutcome
    /\ call = NoCall

SpecRun == InitRun /\ [][Next]_vars

\* a configuration whose charge window crosses midnight: 23:59 to 00:01
WrapConfigs ==
    { [ChargeStartTime |-> [hh |-> 23, mm |-> 59],
       ChargeEndTime |-> [hh |-> 0, mm |-> 1],
       MonitorIntervalSeconds |-> 60,
       ChargePowerUpdateIntervalMinutes |-> 1,
       AutoModeThresholdWatts |-> 0,
       ModeChangeInhibitMinutes |-> 1] }

\* wall clocks at which the process may start: 23:59:00, 23:59:50 and
\* 00:00:30 of the next day
WrapStartClocks == {86340, 86390, 86430}

\* runs of MaxLoops cycles around midnight with the window of WrapConfigs
InitWrap ==
    /\ cfg \in WrapConfigs
    /\ loopCount = MaxLoops
    /\ i = 0
    /\ pc = "loop"
    /\ now \in WrapStartClocks
    /\ nextTick = now + cfg.MonitorIntervalSeconds
    /\ currentTID = 0
    /\ lastModeChangeTime = Never
    /\ lastChargePowerIncreaseTime = Never
    /\ isChargingTimePeriod = FALSE
    /\ target = 1
    /\ monitoringData = << >>
    /\ currentOperationMode = 0
    /\ surplusPower = 0
    /\ sent = << >>
    /\ readTimeouts = 0
    /\ lastOutcome = NoOutcome
    /\ call = NoCall

SpecWrap == InitWrap /\ [][Next]_vars

\* the only goroutine is always scheduled, and each of its steps ends: a
\* transaction returns at the latest when the receive deadline passes, and
\* the ticker fires
SpecRunFair == InitRun /\ [][Next]_vars /\ WF_vars(Next)


----------------------------------------------------------------------------
(* Functions applied on their own *)

\* the variables of main
mainVars == <<cfg, loopCount, i, pc, now, nextTick, currentTID, lastModeChangeTime,
              lastChargePowerIncreaseTime, isChargingTimePeriod, target,
              monitoringData, currentOperationMode, surplusPower, sent,
              readTimeouts, lastOutcome>>

\* inputs of the target charge power computation.  The remaining ratios are
\* multiples of 25: for these 1.0 - float64(r)/100.0 and every later float64
\* product is exact, so that the integer arithmetic of RequiredChargePower is
\* the float64 arithmetic of main.  0xE4 is read as a uint8 and not range
\* checked, so ratios above 100 reach the computation.
Capacities == {100, 10000}
Ratios == {0, 25, 50, 75, 100, 125, 200}
Minutes == {1, 2, 3, 60, 90}
Surpluses == {-200, 100, 500, 2000, 3500, 4000}

TargetInputs ==
    { [op |-> "target", done |-> FALSE, acCapacity |-> c, batteryRemaining |-> r,
       remainingMinutes |-> m, surplus |-> s, out |-> 0] :
        c \in Capacities, r \in Ratios, m \in Minutes, s \in Surpluses }

\* the target charge power block of main applied to the inputs of call
ApplyTarget ==
    /\ call.op = "target" /\ ~call.done
    /\ call' = [call EXCEPT !.done = TRUE,
                             !.out = TargetChargePower(call.acCapacity, call.batteryRemaining,
                                                       call.remainingMinutes, call.surplus)]
    /\ UNCHANGED mainVars

\* property lists of frames handed to MarshalBinary: PDC is the length of EDT
PropertyLists ==
    { << >>,
      << Prop(228, << >>) >>,
      << Prop(218, <<66>>) >>,
      << Prop(235, <<0, 0, 5, 220>>) >>,
      << Prop(228, <<50>>), Prop(218, << >>), Prop(235, <<0, 0, 0, 0>>) >> }

\* property lists in which some PDC is not the length of its EDT
MismatchedLists ==
    { << [EPC |-> 218, PDC |-> 2, EDT |-> <<66>>] >>,
      << [EPC |-> 218, PDC |-> 1, EDT |-> <<66, 70>>] >>,
      << [EPC |-> 218, PDC |-> 0, EDT |-> <<66>>] >>,
      << Prop(228, <<50>>), [EPC |-> 235, PDC |-> 4, EDT |-> <<0, 0>>] >> }

\* frames handed to MarshalBinary; the last set has an OPC that is not the
\* number of properties
FrameInputs ==
    { [EHD1 |-> EchonetLiteEHD1, EHD2 |-> e, TID |-> t, SEOJ |-> o[1], DEOJ |-> o[2],
       ESV |-> esv, OPC |-> Len(p), Properties |-> p] :
        e \in {129, 130}, t \in {1, 4660, 65535},
        o \in {<<controllerEOJ, batteryEOJ>>, <<batteryEOJ, controllerEOJ>>},
        esv \in {ESVGet, ESVGet_Res, ESVSet_Res, ESVSetC_SNA},
        p \in PropertyLists \cup MismatchedLists }
    \cup { [EHD1 |-> EchonetLiteEHD1, EHD2 |-> 129, TID |-> 1, SEOJ |-> controllerEOJ,
            DEOJ |-> batteryEOJ, ESV |-> ESVGet, OPC |-> 2, Properties |-> p] :
              p \in {<< >>, << Prop(228, << >>) >>} }

NoBytes == [err |-> TRUE, bytes |-> << >>]
NoDecoding == [err |-> TRUE, frame |-> NoFrame]

CodecInputs ==
    { [op |-> "codec", stage |-> 0, frame |-> f, data |-> NoBytes, decoded |-> NoDecoding,
       again |-> NoBytes] : f \in FrameInputs }

\* f.MarshalBinary()
EncodeFrame ==
    /\ call.op = "codec" /\ call.stage = 0
    /\ call' = [call EXCEPT !.stage = 1, !.data = MarshalBinary(call.frame)]
    /\ UNCHANGED mainVars

\* decoded.UnmarshalBinary(data) on the bytes MarshalBinary returned
DecodeEncoding ==
    /\ call.op = "codec" /\ call.stage = 1 /\ ~call.data.err
    /\ call' = [call EXCEPT !.stage = 2, !.decoded = UnmarshalBinary(call.data.bytes)]
    /\ UNCHANGED mainVars

\* decoded.MarshalBinary()
ReEncode ==
    /\ call.op = "codec" /\ call.stage = 2 /\ ~call.decoded.err
    /\ call' = [call EXCEPT !.stage = 3, !.again = MarshalBinary(call.decoded.frame)]
    /\ UNCHANGED mainVars

\* encodings of frames as a device sends them, with TID 1 or 0x1234
Encodings ==
    { MarshalBinary(f).bytes :
        f \in { g \in FrameInputs : /\ g.Properties \in PropertyLists
                                     /\ g.OPC = Len(g.Properties)
                                     /\ g.EHD2 = 129 /\ g.TID \in {1, 4660}
                                     /\ g.SEOJ = batteryEOJ
                                     /\ g.ESV \in {ESVGet_Res, ESVSet_Res, ESVSetC_SNA} } }

\* datagrams handed to UnmarshalBinary: the encodings, cut off after any
\* number of bytes, with another first byte, or followed by one more byte
Datagrams ==
    LET cut == UNION { { SubSeq(b, 1, n) : n \in 0..Len(b) } : b \in Encodings }
    IN  cut
        \cup { [b EXCEPT ![1] = x] : b \in {c \in cut : Len(c) >= 1}, x \in {0, 17} }
        \cup { Append(b, 0) : b \in Encodings }

DecodeInputs ==
    { [op |-> "decode", done |-> FALSE, data |-> d, decoded |-> NoDecoding] : d \in Datagrams }

\* responseFrame.UnmarshalBinary(receivedData) on a received datagram
DecodeDatagram ==
    /\ call.op = "decode" /\ ~call.done
    /\ call' = [call EXCEPT !.done = TRUE, !.decoded = UnmarshalBinary(call.data)]
    /\ UNCHANGED mainVars

\* what sendAndReceiveEchonetLiteFrame may return to a write function: a
\* timeout, another error, or a datagram
Responses ==
    {[kind |-> "timeout"], [kind |-> "error"]}
    \cup { [kind |-> "datagram", data |-> d] : d \in Datagrams }

\* the outcome of a transaction whose response was resp, after UnmarshalBinary
Received(resp) ==
    IF resp.kind # "datagram" THEN [kind |-> resp.kind]
    ELSE LET d == UnmarshalBinary(resp.data)
         IN  IF d.err THEN [kind |-> "undecodable"]
             ELSE [kind |-> "frame", frame |-> d.frame]

WriteInputs ==
    { [op |-> "write", done |-> FALSE, resp |-> r, ok |-> FALSE] : r \in Responses }

\* setBatteryOperationMode(0x42) or setBatteryChargePower(1500) with the
\* response of call; ok is whether the function returns nil
SetBattery ==
    /\ call.op = "write" /\ ~call.done
    /\ \E req \in {ModeFrame(ModeCharge, getNextTID(currentTID)),
                    PowerFrame(1500, getNextTID(currentTID))} :
         Write(req, Received(call.resp))
    /\ call' = [call EXCEPT !.done = TRUE, !.ok = WriteSucceeds(Received(call.resp))]
    /\ UNCHANGED <<cfg, loopCount, i, pc, nextTick, lastModeChangeTime,
                   lastChargePowerIncreaseTime, isChargingTimePeriod, target,
                   monitoringData, currentOperationMode, surplusPower, readTimeouts>>

\* window bounds of the configuration: 00:00, 02:00, 09:00, 23:00, 23:59
ClockTexts ==
    { [hh |-> 0, mm |-> 0], [hh |-> 2, mm |-> 0], [hh |-> 9, mm |-> 0],
      [hh |-> 23, mm |-> 0], [hh |-> 23, mm |-> 59] }

\* wall clocks: one in every minute of the first day and of the first two
\* hours of the second, at differing seconds
WallClocks == { 60 * m + (m % 60) : m \in 0..1559 }

WindowInputs ==
    { [op |-> "window", done |-> FALSE, startTimeStr |-> a, endTimeStr |-> b, t |-> t,
       out |-> [result |-> FALSE, err |-> FALSE]] :
        a \in ClockTexts, b \in ClockTexts, t \in WallClocks }

\* isChargingTime(cfg.ChargeStartTime, cfg.ChargeEndTime) at wall clock t
ApplyWindow ==
    /\ call.op = "window" /\ ~call.done
    /\ call' = [call EXCEPT !.done = TRUE,
                             !.out = isChargingTime(call.startTimeStr, call.endTimeStr, call.t)]
    /\ UNCHANGED mainVars

\* values the meter and the PCS (int32) and the PV (uint16) may report
PowerValues == {MinInt32, -1, 0, 300, MaxInt32}
PVValues == {0, 100, 2000, 65535}

SurplusInputs ==
    { [op |-> "surplus", done |-> FALSE, grid |-> g, pcs |-> p, pv |-> v,
       available |-> FALSE, out |-> 0] :
        g \in PowerValues, p \in PowerValues, v \in PVValues }

\* the snapshot after Get_Res frames of PV, meter and PCS carrying the bytes
\* of the three values, and the derived metrics block on it
ApplySurplus ==
    /\ call.op = "surplus" /\ ~call.done
    /\ LET pvData == StoreProperties(<< >>, targets[2].ObjectName, targets[2].EOJ,
                                     << Prop(224, <<call.pv \div 256, call.pv % 256>>) >>, 1)
           gridData == StoreProperties(pvData, targets[3].ObjectName, targets[3].EOJ,
                                       << Prop(198, PutUint32(call.grid)) >>, 1)
           data == StoreProperties(gridData, targets[4].ObjectName, targets[4].EOJ,
                                   << Prop(231, PutUint32(call.pcs)) >>, 1)
       IN  call' = [call EXCEPT !.done = TRUE,
                                !.available = MetricsAvailable(data),
                                !.out = DerivedSurplus(data)]
    /\ UNCHANGED mainVars

\* objects handed to decodeEDT: the four monitored ones, a second battery
\* instance, a class of group 0x02 that is not registered, and the controller
DecodeEOJs ==
    { targets[k].EOJ : k \in 1..Len(targets) }
    \cup { <<2, 125, 2>>, <<2, 130, 1>>, controllerEOJ }

\* the eight EPCs of the registry and 0x80
DecodeEPCs == {228, 218, 235, 211, 160, 224, 198, 231, 128}

\* EDTs of 0 to 5 bytes as UnmarshalBinary hands them over (<< >> is the nil
\* EDT of a property with PDC = 0)
DecodeEDTs ==
    { << >>, <<0>>, <<50>>, <<255>>, <<0, 1>>, <<1, 0>>, <<255, 254>>, <<1, 2, 3>>,
      <<0, 0, 11, 184>>, <<127, 255, 255, 255>>, <<255, 255, 255, 254>>,
      <<128, 0, 0, 0>>, <<0, 0, 0, 0, 1>> }

\* decodeEDT inputs.  An unsigned 32-bit value of 2^31 or more is left out:
\* it is beyond the integers of the model checker
RegistryInputs ==
    { c \in { [op |-> "decodeEDT", done |-> FALSE, deoj |-> o, epc |-> e, edt |-> d,
               out |-> [value |-> Typed("nil", 0), name |-> "", err |-> FALSE]] :
                 o \in DecodeEOJs, e \in DecodeEPCs, d \in DecodeEDTs } :
        ~(/\ c.deoj[1] = 2 /\ c.deoj[2] = 125 /\ c.epc \in {235, 160}
          /\ Len(c.edt) = 4 /\ c.edt[1] >= 128) }

\* decodeEDT(deoj, epc, edt)
ApplyDecodeEDT ==
    /\ call.op = "decodeEDT" /\ ~call.done
    /\ call' = [call EXCEPT !.done = TRUE, !.out = decodeEDT(call.deoj, call.epc, call.edt)]
    /\ UNCHANGED mainVars

\* property lists of the responses handed to the response processing: none,
\* a whole battery answer, a wrong length before a good property, an unknown
\* EPC before a good property, PDC = 0 before a good property, the answers of
\* PV, meter and PCS, and a property reported twice
ResponseProperties ==
    { << >>,
      BatteryProps(<<50>>, <<66>>, PutUint32(1500), PutUint32(100)),
      << Prop(228, <<50, 0>>), Prop(218, <<70>>) >>,
      << Prop(255, <<1>>), Prop(235, PutUint32(0)) >>,
      << Prop(228, << >>), Prop(160, PutUint32(100)) >>,
      << Prop(224, <<0, 100>>) >>,
      << Prop(198, PutUint32(300)) >>,
      << Prop(231, PutUint32(0)) >>,
      << Prop(218, <<66>>), Prop(218, <<70>>) >> }

\* the TID of the Get whose response is processed
RequestTID == 7

\* response frames: from any of the four objects or the controller, with the
\* TID of the request or the one before, with any of four ESVs
ResponseFrames ==
    { Frame(t, o, controllerEOJ, esv, p) :
        t \in {RequestTID, RequestTID - 1},
        o \in { targets[k].EOJ : k \in 1..Len(targets) } \cup { controllerEOJ },
        esv \in {ESVGet_Res, ESVGet_SNA, ESVSet_Res, ESVSetC_SNA},
        p \in ResponseProperties }

\* snapshots before the response: empty, or holding the answer of the meter
SnapshotsBefore == { << >>, GridKey :> Typed("int32", 300) }

ResponseInputs ==
    { [op |-> "response", done |-> FALSE, target |-> k, tid |-> RequestTID, frame |-> f,
       before |-> d, out |-> [data |-> d, mode |-> 0]] :
        k \in 1..Len(targets), f \in ResponseFrames, d \in SnapshotsBefore }

\* the body of the loop over targets after UnmarshalBinary succeeded
ApplyResponse ==
    /\ call.op = "response" /\ ~call.done
    /\ call' = [call EXCEPT !.done = TRUE,
                             !.out = ProcessResponse(call.before, 0, targets[call.target].ObjectName,
                                                     call.tid, call.frame)]
    /\ UNCHANGED mainVars

CallInputs ==
    TargetInputs \cup CodecInputs \cup DecodeInputs \cup WriteInputs \cup WindowInputs
    \cup SurplusInputs \cup RegistryInputs \cup ResponseInputs

InitCalls ==
    /\ ProgramStart(0)
    /\ call \in CallInputs

NextCalls ==
    \/ ApplyTarget
    \/ EncodeFrame
    \/ DecodeEncoding
    \/ ReEncode
    \/ DecodeDatagram
    \/ SetBattery
    \/ ApplyWindow
    \/ ApplySurplus
    \/ ApplyDecodeEDT
    \/ ApplyResponse

SpecCalls == InitCalls /\ [][NextCalls]_vars

----------------------------------------------------------------------------
(* The sequence of transactions of a run of any length *)

\* the request frames main and the two write functions build with TID tid
Requests(tid) ==
    { GetFrame(k, tid) : k \in 1..Len(targets) }
    \cup { ModeFrame(ModeCharge, tid), ModeFrame(ModeAuto, tid), PowerFrame(0, tid) }

\* one transaction: getNextTID is called, the frame is built with its result and
\* handed to sendAndReceiveEchonetLiteFrame; what comes back does not matter
Transaction ==
    /\ call.op \in {"none", "request"}
    /\ \E f \in Requests(getNextTID(currentTID)) :
         /\ currentTID' = f.TID
         /\ call' = [op |-> "request", prev |-> currentTID, frame |-> f]
    /\ UNCHANGED <<cfg, loopCount, i, pc, now, nextTick, lastModeChangeTime,
                   lastChargePowerIncreaseTime, isChargingTimePeriod, target,
                   monitoringData, currentOperationMode, surplusPower, sent,
                   readTimeouts, lastOutcome>>

InitTID ==
    /\ ProgramStart(0)
    /\ call = NoCall

NextTID ==
    \/ Transaction

SpecTID == InitTID /\ [][NextTID]_vars

----------------------------------------------------------------------------
(* The local UDP port 3610 during the transactions of a run *)

\* cycles of the port harness
MaxPortCycles == 2

\* the writes a cycle can make: default mode, grid-import guard, set-point
WritesPerCycle == 3

\* nothing called yet: main waits at the head of its loop, the port is free
PortStart ==
    [op |-> "port", running |-> TRUE, phase |-> "tick", target |-> 1, writes |-> 0,
     step |-> "caller", bound |-> FALSE, inFlight |-> 0, taken |-> FALSE,
     result |-> "none", cycles |-> 0]

\* the caller after sendAndReceiveEchonetLiteFrame returned: the loop over the
\* targets goes to the next target, a write function returns to the control logic
Resume(c) ==
    IF c.phase = "collect"
    THEN IF c.target < Len(targets)
         THEN [c EXCEPT !.target = c.target + 1]
         ELSE [c EXCEPT !.phase = "control"]
    ELSE c

\* variant: the socket is closed on the successful path only
Returned_LeakOnError(c, result) ==
    Resume([c EXCEPT !.step = "caller", !.inFlight = c.inFlight - 1, !.result = result,
                     !.bound = IF result = "data" THEN FALSE ELSE c.bound])

\* a return of sendAndReceiveEchonetLiteFrame: the deferred conn.Close() runs
\* if the socket was opened, whatever the path
Returned(c, result) ==
    Resume([c EXCEPT !.step = "caller", !.inFlight = c.inFlight - 1, !.result = result,
                     !.bound = FALSE])

\* entry of sendAndReceiveEchonetLiteFrame; MarshalBinary accepts the frames
\* main builds
Entered(c) == [c EXCEPT !.step = "resolve", !.inFlight = c.inFlight + 1, !.result = "none"]

\* the loop condition holds: the ticker wait, then the loop over the targets
BeginPortCycle ==
    /\ call.op = "port" /\ call.running
    /\ call.phase = "tick" /\ call.cycles < MaxPortCycles
    /\ call' = [call EXCEPT !.phase = "collect", !.target = 1, !.writes = 0]
    /\ UNCHANGED mainVars

\* the Get transaction of a target
CallGet ==
    /\ call.op = "port" /\ call.running
    /\ call.phase = "collect" /\ call.step = "caller"
    /\ call' = Entered(call)
    /\ UNCHANGED mainVars

\* a transaction of setBatteryOperationMode or setBatteryChargePower
CallSet ==
    /\ call.op = "port" /\ call.running
    /\ call.phase = "control" /\ call.step = "caller" /\ call.writes < WritesPerCycle
    /\ call' = Entered([call EXCEPT !.writes = call.writes + 1])
    /\ UNCHANGED mainVars

\* the end of the loop body
EndPortCycle ==
    /\ call.op = "port" /\ call.running
    /\ call.phase = "control" /\ call.step = "caller"
    /\ call' = [call EXCEPT !.phase = "tick", !.cycles = call.cycles + 1]
    /\ UNCHANGED mainVars

\* net.ResolveUDPAddr on the configured target address
ResolveUDPAddr ==
    /\ call.op = "port" /\ call.running /\ call.step = "resolve"
    /\ \/ call' = [call EXCEPT !.step = "listen"]
       \/ call' = Returned(call, "resolve error")
    /\ UNCHANGED mainVars

\* net.ListenUDP on port 3610: fails while another process holds the port
ListenUDP ==
    /\ call.op = "port" /\ call.running /\ call.step = "listen"
    /\ call' = IF call.taken
               THEN Returned(call, "listen error")
               ELSE [call EXCEPT !.step = "send", !.bound = TRUE]
    /\ UNCHANGED mainVars

\* conn.WriteToUDP
WriteToUDP ==
    /\ call.op = "port" /\ call.running /\ call.step = "send"
    /\ \/ call' = [call EXCEPT !.step = "read"]
       \/ call' = Returned(call, "send error")
    /\ UNCHANGED mainVars

\* conn.SetReadDeadline and conn.ReadFromUDP
ReadFromUDP ==
    /\ call.op = "port" /\ call.running /\ call.step = "read"
    /\ \E r \in {"data", "timeout", "read error"} : call' = Returned(call, r)
    /\ UNCHANGED mainVars

\* another process of the host binds or releases port 3610
OtherProcess ==
    /\ call.op = "port" /\ call.running /\ ~call.bound
    /\ call' = [call EXCEPT !.taken = ~call.taken]
    /\ UNCHANGED mainVars

InitPort ==
    /\ ProgramStart(0)
    /\ call = PortStart

NextPort ==
    \/ BeginPortCycle
    \/ CallGet
    \/ CallSet
    \/ EndPortCycle
    \/ ResolveUDPAddr
    \/ ListenUDP
    \/ WriteToUDP
    \/ ReadFromUDP
    \/ OtherProcess

SpecPort == InitPort /\ [][NextPort]_vars

\* SIGINT or SIGTERM arrives.  main installs no handler (there is no
\* signal.Notify), so the Go runtime ends the process at once, wherever it is:
\* no deferred call runs, the transaction under way never returns, and the
\* kernel closes the socket of the dead process
Signal ==
    /\ call.op = "port" /\ call.running
    /\ call' = [call EXCEPT !.running = FALSE, !.bound = FALSE]
    /\ UNCHANGED mainVars

NextSignal ==
    \/ NextPort
    \/ Signal

SpecSignal == InitPort /\ [][NextSignal]_vars

----------------------------------------------------------------------------
(* Vocabulary of the properties *)

\* the SetC frames among the requests q, in order
SetCs(q) == SelectSeq(q, LAMBDA f : f.ESV = ESVSetC)

\* f is a SetC of property epc
IsWriteOf(f, epc) == f.ESV = ESVSetC /\ f.Properties[1].EPC = epc

\* f is a SetC of the operation mode carrying mode
IsModeWrite(f, mode) == IsWriteOf(f, EPCOperationMode) /\ f.Properties[1].EDT = <<mode>>

\* f is a SetC of the charging power set-point carrying the bytes of power
IsPowerWrite(f, power) == IsWriteOf(f, EPCChargePower) /\ f.Properties[1].EDT = PutUint32(power)

\* this step sent exactly one request, a SetC
WroteNow == Len(sent') = Len(sent) + 1 /\ sent'[Len(sent')].ESV = ESVSetC

\* the request this step sent
Written == sent'[Len(sent')]

\* the response to the SetC of this step was a Set_Res
AnsweredSetRes == lastOutcome'.kind = "frame" /\ lastOutcome'.esv = ESVSet_Res

\* fewer than cfg.ModeChangeInhibitMinutes have passed since a mode change
InhibitWindow == lastModeChangeTime # Never /\ now - lastModeChangeTime < cfg.ModeChangeInhibitMinutes * 60

\* fewer than cfg.ChargePowerUpdateIntervalMinutes have passed since an increase
LockoutWindow ==
    /\ lastChargePowerIncreaseTime # Never
    /\ now - lastChargePowerIncreaseTime < cfg.ChargePowerUpdateIntervalMinutes * 60

\* the set-point block is reached with a computed target and an observed set-point
TargetAndSetpointKnown ==
    /\ pc = "setpoint"
    /\ TargetComputed(monitoringData, now)
    /\ Has(monitoringData, SetpointKey, "uint32")

ObservedSetpoint == Get(monitoringData, SetpointKey, "uint32")
ComputedTarget == Target(monitoringData, surplusPower, now)

----------------------------------------------------------------------------
(* Properties *)

\* C1: in a cycle in which every Get transaction timed out the snapshot is
\* empty and the cycle sends no SetC, inside or outside the charge window.
C1_NoWriteAfterTimeouts ==
    (pc \in {"control", "guard", "setpoint", "loop"} /\ readTimeouts = Len(targets))
        => (monitoringData = << >> /\ SetCs(sent) = << >>)

\* C2: inside the window, when the inhibit check finds lastModeChangeTime set
\* and fewer than ModeChangeInhibitMinutes elapsed, the cycle ends without
\* having sent any SetC (neither 0xDA nor 0xEB).
C2_InhibitSkipsWrites ==
    [][ (pc = "control" /\ isChargingTimePeriod /\ InhibitWindow)
          => (pc' = "loop" /\ i' = i + 1 /\ SetCs(sent') = << >>) ]_vars

C2_Witness ==
    /\ pc = "loop" /\ i = 2
    /\ isChargingTimePeriod
    /\ InhibitWindow
    /\ Len(sent) = Len(targets)
    /\ SetCs(sent) = << >>
    /\ currentOperationMode = ModeAuto
    /\ surplusPower > 0

\* C3: with the computed target above the observed set-point, a SetC of 0xEB
\* is sent only if at least ChargePowerUpdateIntervalMinutes have elapsed since
\* lastChargePowerIncreaseTime; a successful increase sets it to the current
\* time; two successful increases are never closer than the interval.
C3_IncreaseRateLimit ==
    [][ /\ (TargetAndSetpointKnown /\ ComputedTarget > ObservedSetpoint /\ WroteNow)
            => (~LockoutWindow /\ IsPowerWrite(Written, ComputedTarget))
        /\ (TargetAndSetpointKnown /\ ComputedTarget > ObservedSetpoint /\ WroteNow /\ AnsweredSetRes)
            => lastChargePowerIncreaseTime' = now'
        /\ (lastChargePowerIncreaseTime' # lastChargePowerIncreaseTime
              /\ lastChargePowerIncreaseTime # Never)
            => lastChargePowerIncreaseTime' - lastChargePowerIncreaseTime
                  >= cfg.ChargePowerUpdateIntervalMinutes * 60 ]_vars

\* an increase was due and the lockout suppressed it
C3_Witness ==
    /\ pc = "loop" /\ i = 2
    /\ isChargingTimePeriod
    /\ TargetComputed(monitoringData, now)
    /\ Has(monitoringData, SetpointKey, "uint32")
    /\ ComputedTarget > ObservedSetpoint
    /\ LockoutWindow
    /\ \A n \in 1..Len(sent) : ~IsWriteOf(sent[n], EPCChargePower)

C5_DecreaseKeepsTimestamps ==
    [][ (TargetAndSetpointKnown /\ ComputedTarget < ObservedSetpoint /\ WroteNow)
          => UNCHANGED <<lastChargePowerIncreaseTime, lastModeChangeTime>> ]_vars

\* a decrease answered by Set_Res
C5_Witness ==
    /\ pc = "loop"
    /\ Len(sent) > Len(targets)
    /\ IsWriteOf(sent[Len(sent)], EPCChargePower)
    /\ Has(monitoringData, SetpointKey, "uint32")
    /\ BigEndianInt32(sent[Len(sent)].Properties[1].EDT) < ObservedSetpoint
    /\ lastOutcome = [kind |-> "frame", esv |-> ESVSet_Res]
    /\ lastChargePowerIncreaseTime = Never

\* C6: a write that fails (timeout, transport error, undecodable response,
\* SetC_SNA or any ESV other than Set_Res) changes neither timestamp; a
\* timestamp changes only in a step whose write was answered by Set_Res.
C6_FailedWriteKeepsTimestamps ==
    [][ /\ (WroteNow /\ ~AnsweredSetRes)
            => UNCHANGED <<lastChargePowerIncreaseTime, lastModeChangeTime>>
        /\ (lastModeChangeTime' # lastModeChangeTime
              \/ lastChargePowerIncreaseTime' # lastChargePowerIncreaseTime)
            => (WroteNow /\ AnsweredSetRes) ]_vars

\* a guard write refused with SetC_SNA
C6_Witness ==
    /\ pc = "setpoint"
    /\ Len(sent) > Len(targets)
    /\ IsModeWrite(sent[Len(sent)], ModeAuto)
    /\ lastOutcome = [kind |-> "frame", esv |-> ESVSetC_SNA]
    /\ lastModeChangeTime = Never

\* C7: every mode write answered by Set_Res sets lastModeChangeTime to the
\* current time: the charge-mode write inside the window, the auto-mode write
\* of the guard and the auto-mode write outside the window.
C7_ModeWriteSetsTimestamp ==
    [][ (WroteNow /\ IsWriteOf(Written, EPCOperationMode) /\ AnsweredSetRes)
          => lastModeChangeTime' = now' ]_vars

\* C8: in an in-window cycle with observed mode charge, inhibit not active and
\* surplus below AutoModeThresholdWatts, the cycle sends exactly one SetC, the
\* 0xDA = 0x46 one, and no SetC of 0xEB.
C8_LowSurplusOnlyAuto ==
    [][ (pc = "setpoint" /\ currentOperationMode = ModeCharge
           /\ surplusPower < cfg.AutoModeThresholdWatts)
          => /\ Len(SetCs(sent')) = 1
             /\ IsModeWrite(SetCs(sent')[1], ModeAuto) ]_vars

\* C9: outside the window a cycle sends exactly one SetC of 0xDA = 0x46 when
\* the observed mode is not 0x46 and no SetC when it is 0x46; it never sends a
\* SetC of 0xEB or of 0xDA = 0x42.
C9_OutsideWindow ==
    [][ (pc = "control" /\ ~isChargingTimePeriod)
          => /\ pc' = "loop"
             /\ currentOperationMode # ModeAuto
                  => (Len(SetCs(sent')) = 1 /\ IsModeWrite(SetCs(sent')[1], ModeAuto))
             /\ currentOperationMode = ModeAuto => SetCs(sent') = << >> ]_vars

C9_Witness ==
    /\ pc = "loop" /\ i > 0
    /\ ~isChargingTimePeriod
    /\ currentOperationMode = ModeCharge
    /\ Len(sent) = Len(targets) + 1
    /\ IsModeWrite(sent[Len(sent)], ModeAuto)

\* C10: with AutoModeThresholdWatts = 0, after a write of the auto mode has
\* succeeded, an in-window cycle whose inhibit has elapsed, whose surplus is
\* at or above the threshold and whose observed mode is not charge sends the
\* SetC of 0xDA = 0x42 as its first write; no SetC of 0xDA = 0x42 is sent while
\* the inhibit is running.
C10_Hysteresis ==
    [][ /\ (/\ pc = "control" /\ isChargingTimePeriod
            /\ cfg.AutoModeThresholdWatts = 0
            /\ lastModeChangeTime # Never /\ ~InhibitWindow
            /\ MetricsAvailable(monitoringData)
            /\ DerivedSurplus(monitoringData) >= cfg.AutoModeThresholdWatts
            /\ currentOperationMode # ModeCharge)
            => (WroteNow /\ IsModeWrite(Written, ModeCharge) /\ Len(SetCs(sent')) = 1)
        /\ (InhibitWindow /\ WroteNow) => ~IsModeWrite(Written, ModeCharge) ]_vars

\* back in charge mode after an auto switch
C10_Witness ==
    /\ pc = "guard"
    /\ lastModeChangeTime # Never
    /\ currentOperationMode = ModeAuto
    /\ surplusPower > 0
    /\ Len(sent) = Len(targets) + 1
    /\ IsModeWrite(sent[Len(sent)], ModeCharge)

\* C11: the target charge power computed from capacity c, remaining ratio r,
\* surplus s and m > 0 minutes remaining is
\* max(0, min(floor(c * (100 - r) / 100 * 60 / m), 3000, max(s - 500, 0))).
C11_TargetFormula ==
    (call.op = "target" /\ call.done) =>
        LET required == (call.acCapacity * (100 - call.batteryRemaining) * 60)
                            \div (100 * call.remainingMinutes)
            headroom == IF call.surplus - 500 > 0 THEN call.surplus - 500 ELSE 0
            ceiling == IF headroom < 3000 THEN headroom ELSE 3000
            capped == IF required < ceiling THEN required ELSE ceiling
        IN  call.out = IF capped > 0 THEN capped ELSE 0

\* C12: in a cycle whose snapshot lacks grid power, PCS power or PV power,
\* neither the grid-import guard nor the set-point block sends a SetC: no
\* auto-mode write of the guard and no write of 0xEB.
C12_MissingMetricsSkip ==
    [][ (pc \in {"guard", "setpoint"} /\ ~MetricsAvailable(monitoringData)) => ~WroteNow ]_vars

\* C13: every request (Get or SetC) carries the successor of the TID of the
\* request before it: 1 for the first, previous + 1 after that, 1 after
\* 0xFFFF, never 0; currentTID is the TID of the latest request.
C13_TIDSequence ==
    [][ /\ call'.op = "request" =>
              /\ call'.frame.TID = IF currentTID = 65535 THEN 1 ELSE currentTID + 1
              /\ call'.frame.TID \in 1..65535
              /\ currentTID' = call'.frame.TID
        /\ Len(sent') = Len(sent) + 1 =>
              /\ sent'[Len(sent')].TID = IF currentTID = 65535 THEN 1 ELSE currentTID + 1
              /\ sent'[Len(sent')].TID \in 1..65535
              /\ currentTID' = sent'[Len(sent')].TID ]_vars

\* the request after the one with TID 0xFFFF
C13_Witness ==
    /\ call.op = "request"
    /\ call.prev = 65535
    /\ call.frame.TID = 1
    /\ call.frame.ESV = ESVSetC

\* the frames of the round-trip claim: EHD1 = 0x10, OPC is the number of
\* properties and every PDC is the length of its EDT
ValidFrame(f) ==
    /\ f.EHD1 = 16
    /\ Len(f.Properties) = f.OPC
    /\ \A n \in 1..Len(f.Properties) : f.Properties[n].PDC = Len(f.Properties[n].EDT)

\* C15: for every such frame, encoding succeeds, decoding the encoding
\* succeeds and yields a frame equal to the original, and encoding that frame
\* yields the same bytes.
C15_RoundTrip ==
    (call.op = "codec" /\ ValidFrame(call.frame)) =>
        /\ call.stage >= 1 => ~call.data.err
        /\ call.stage >= 2 => (~call.decoded.err /\ call.decoded.frame = call.frame)
        /\ call.stage >= 3 => (~call.again.err /\ call.again.bytes = call.data.bytes)

\* a frame with three properties, one of them without EDT, after the round trip
C15_Witness ==
    /\ call.op = "codec" /\ call.stage = 3
    /\ ValidFrame(call.frame)
    /\ Len(call.frame.Properties) = 3
    /\ call.frame.TID = 65535
    /\ Len(call.data.bytes) = 23
    /\ call.again.bytes = call.data.bytes

\* the properties a datagram declares do not fit: walking count properties
\* from position pos by their declared lengths leaves the datagram
RECURSIVE Overruns(_, _, _)
Overruns(data, pos, count) ==
    IF count = 0 THEN FALSE
    ELSE IF pos + 1 > Len(data) THEN TRUE
    ELSE IF pos + 1 + data[pos + 1] > Len(data) THEN TRUE
    ELSE Overruns(data, pos + 2 + data[pos + 1], count - 1)

\* C16: decoding a datagram of at least 12 bytes whose declared properties
\* overrun it (not all OPC properties can be read, or a PDC exceeds the bytes
\* left after it) fails with an error.
C16_OverrunFails ==
    (call.op = "decode" /\ call.done /\ Len(call.data) >= 12
       /\ Overruns(call.data, 13, call.data[12]))
        => call.decoded.err

\* C17: MarshalBinary fails and returns no bytes for every frame with a
\* property whose PDC is not the length of its EDT, shorter or longer.
C17_MismatchFails ==
    (call.op = "codec" /\ call.stage >= 1
       /\ \E n \in 1..Len(call.frame.Properties) :
             call.frame.Properties[n].PDC # Len(call.frame.Properties[n].EDT))
        => (call.data.err /\ call.data.bytes = << >>)

\* C18: decoding fails for every datagram shorter than 12 bytes and for every
\* datagram of at least 12 bytes whose first byte is not 0x10.
C18_ShortOrForeignFails ==
    (call.op = "decode" /\ call.done /\ (Len(call.data) < 12 \/ call.data[1] # 16))
        => call.decoded.err

\* a whole frame with a property, refused for its first byte
C18_Witness ==
    /\ call.op = "decode" /\ call.done
    /\ Len(call.data) = 15
    /\ call.data[1] = 17
    /\ ~Overruns(call.data, 13, call.data[12])
    /\ call.decoded.err

\* eleven bytes of a frame, refused for their number
C18_WitnessShort ==
    /\ call.op = "decode" /\ call.done
    /\ Len(call.data) = 11
    /\ call.data[1] = 16
    /\ call.decoded.err

\* C14: a write function returns nil exactly when a datagram was received,
\* it decoded, and its ESV byte is Set_Res (0x71); a timeout, a transport
\* error, an undecodable datagram, SetC_SNA and any other ESV are failures.
C14_WriteSuccessIffSetRes ==
    (call.op = "write" /\ call.done) =>
        (call.ok <=> /\ call.resp.kind = "datagram"
                     /\ ~UnmarshalBinary(call.resp.data).err
                     /\ call.resp.data[11] = 113)

\* a write acknowledged by a Set_Res that names the property
C14_Witness ==
    /\ call.op = "write" /\ call.done /\ call.ok
    /\ Len(call.resp.data) = 14
    /\ IsPowerWrite(sent[Len(sent)], 1500)
    /\ lastOutcome = [kind |-> "frame", esv |-> ESVSet_Res]

\* C19: with start s, end e and current time of day c in minutes, the window
\* predicate is s <= c < e when e > s, c >= s or c < e when e < s, and false
\* when e = s.
C19_WindowPredicate ==
    (call.op = "window" /\ call.done) =>
        LET s == call.startTimeStr.hh * 60 + call.startTimeStr.mm
            e == call.endTimeStr.hh * 60 + call.endTimeStr.mm
            c == (call.t % 86400) \div 60
        IN  /\ ~call.out.err
            /\ call.out.result = IF e > s THEN s <= c /\ c < e
                                  ELSE IF e < s THEN c >= s \/ c < e
                                  ELSE FALSE

\* 01:30 inside the window 23:00 - 02:00
C19_Witness ==
    /\ call.op = "window" /\ call.done
    /\ call.startTimeStr = [hh |-> 23, mm |-> 0]
    /\ call.endTimeStr = [hh |-> 2, mm |-> 0]
    /\ call.t = 90 * 60 + 30
    /\ call.out.result

\* s = pv - (grid - pcs) over the integers, compared in 16-bit limbs so that
\* no intermediate value leaves the range of the model checker's integers
ExactSurplus(s, pv, grid, pcs) ==
    LET low == (pv % 65536) - (grid % 65536) + (pcs % 65536)
        high == (pv \div 65536) - (grid \div 65536) + (pcs \div 65536) + (low \div 65536)
    IN  s \div 65536 = high /\ s % 65536 = low % 65536

\* C20: when grid, PCS and PV power are all in the snapshot, the surplus is
\* exactly pv - (grid - pcs), for every int32 grid and PCS value and every
\* uint16 PV value.
C20_SurplusExact ==
    (call.op = "surplus" /\ call.done /\ call.available)
        => ExactSurplus(call.out, call.pv, call.grid, call.pcs)

\* C21: at most one transaction is in flight at any time; the local port is
\* bound only while a transaction is between its ListenUDP and its return, and
\* once sendAndReceiveEchonetLiteFrame has returned, by whatever path, the
\* port is not bound by the controller
C21_PortBoundOnlyInTransaction ==
    call.op = "port" =>
        /\ call.inFlight \in {0, 1}
        /\ call.bound => call.inFlight = 1 /\ call.step \in {"send", "read"}
        /\ call.step = "caller" => ~call.bound /\ call.inFlight = 0

\* a transaction that bound the port has returned on a timeout
C21_Witness ==
    /\ call.op = "port"
    /\ call.step = "caller"
    /\ call.result = "timeout"
    /\ ~call.bound

\* C22: whatever happens in a cycle (transactions that time out, find the port
\* taken, fail to send or to read, answer with bytes that do not decode, with
\* Get_SNA, SetC_SNA or an unexpected ESV, or a window predicate that returns
\* an error), the process ends only when the loop count is reached, the end of
\* a loop body is the end of one more cycle, and from every point of a cycle
\* after its first transaction the run reaches the first transaction of the
\* next cycle, unless the loop count (or the length of the runs of the model)
\* allows no further cycle
C22_LoopSurvivesFailures ==
    /\ [](pc = "exit" => loopCount # -1 /\ i >= loopCount)
    /\ [][pc # "loop" /\ pc' = "loop" => i' = i + 1]_vars
    /\ (pc \in {"collect", "control", "guard", "setpoint"} /\ ~(pc = "collect" /\ target = 1))
          ~> \/ pc = "collect" /\ target = 1
             \/ pc = "loop" /\ ~(i < MaxLoops /\ (loopCount = -1 \/ i < loopCount))

\* the end of a cycle of an unbounded run in which the window times did not
\* parse, every Get timed out and the mode write failed
C22_Witness ==
    /\ loopCount = -1
    /\ cfg \in UnparseableConfigs
    /\ pc = "loop" /\ i = 1
    /\ readTimeouts = Len(targets)
    /\ lastOutcome.kind = "error"

\* C23: a run with loop count N >= 0 makes exactly N cycles and then ends: the
\* process ends only when i = N cycles are complete, the first cycle starts
\* without waiting, every later one not before the pending tick, and the end
\* is reached; a run with loop count -1 never ends
C23_BoundedRunEnds ==
    /\ [](pc = "exit" => loopCount >= 0 /\ i = loopCount)
    /\ [](loopCount = -1 => pc # "exit")
    /\ [][pc = "loop" /\ pc' = "collect" =>
            /\ i' = i
            /\ (i < loopCount \/ loopCount = -1)
            /\ IF i = 0 THEN now' = now ELSE now' >= nextTick]_vars
    /\ (loopCount >= 0) ~> (pc = "exit")

\* a run with the largest loop count has ended after a last cycle that waited
\* for its tick
C23_Witness ==
    /\ pc = "exit"
    /\ loopCount = MaxLoops
    /\ i = MaxLoops
    /\ now >= 32460 + cfg.MonitorIntervalSeconds * (MaxLoops - 1)

\* C24: a shutdown signal during a cycle lets the transaction under way
\* complete, and the process ends after it with the port unbound: a process
\* that has ended is at no step of a transaction, has none in flight, and
\* does not hold the port
C24_SignalCompletesTransaction ==
    (call.op = "port" /\ ~call.running) =>
        /\ call.step = "caller"
        /\ call.inFlight = 0
        /\ ~call.bound

\* C25: with a configuration whose window start or end does not parse as a
\* time of day the process ends before the first cycle: no cycle starts and no
\* request, read or write, is ever sent
C25_UnparseableTimeIsFatal ==
    cfg \in UnparseableConfigs =>
        /\ pc \in {"loop", "exit"}
        /\ i = 0
        /\ sent = << >>
        /\ currentTID = 0

\* the registry of decodeEDT: class of group 0x02, EPC, length, type and name
Registry ==
    { [class |-> 125, epc |-> 228, len |-> 1, type |-> "uint8", label |-> "RemainingCapacity3"],
      [class |-> 125, epc |-> 218, len |-> 1, type |-> "uint8", label |-> "OperationModeSetting"],
      [class |-> 125, epc |-> 235, len |-> 4, type |-> "uint32", label |-> "ChargingPowerSetting"],
      [class |-> 125, epc |-> 211, len |-> 4, type |-> "int32",
       label |-> "InstantaneousChargeDischargePower"],
      [class |-> 125, epc |-> 160, len |-> 4, type |-> "uint32", label |-> "ACEffectiveCapacityCharge"],
      [class |-> 121, epc |-> 224, len |-> 2, type |-> "uint16", label |-> "InstantaneousGeneratedPower"],
      [class |-> 135, epc |-> 198, len |-> 4, type |-> "int32", label |-> "InstantaneousPower"],
      [class |-> 165, epc |-> 231, len |-> 4, type |-> "int32", label |-> "InstantaneousPower"] }

\* v of type t is the number whose big-endian bytes are edt
BigEndianValue(t, v, edt) ==
    IF t = "uint8" THEN v \in 0..255 /\ edt = <<v>>
    ELSE IF t = "uint16" THEN v \in 0..65535 /\ edt = <<v \div 256, v % 256>>
    ELSE IF t = "uint32" THEN v >= 0 /\ edt = PutUint32(v)
    ELSE edt = PutUint32(v)

\* C26: for each of the eight registered (class, EPC) pairs an EDT of the
\* registered length decodes without error to the value of the registered type
\* that the bytes spell in big-endian order, under the registered name; an
\* EDT of any other non-zero length gives an error, the registered name and
\* the raw bytes; a pair that is not registered gives an error, a name that
\* is none of the registered ones, and the raw bytes
C26_RegistryDecode ==
    (call.op = "decodeEDT" /\ call.done /\ call.edt # << >>) =>
        LET entries == { r \in Registry : call.deoj[1] = 2 /\ r.class = call.deoj[2]
                                           /\ r.epc = call.epc }
        IN  IF entries = {}
            THEN /\ call.out.err
                 /\ call.out.value.type = "bytes" /\ call.out.value.v = call.edt
                 /\ call.out.name \notin { r.label : r \in Registry }
            ELSE \A r \in entries :
                    /\ call.out.name = r.label
                    /\ IF Len(call.edt) = r.len
                       THEN /\ ~call.out.err
                            /\ call.out.value.type = r.type
                            /\ BigEndianValue(r.type, call.out.value.v, call.edt)
                       ELSE /\ call.out.err
                            /\ call.out.value.type = "bytes" /\ call.out.value.v = call.edt

\* the generated power FF FE of the PV object was decoded as the uint16 65534
C26_Witness ==
    /\ call.op = "decodeEDT" /\ call.done
    /\ call.deoj = <<2, 121, 1>> /\ call.epc = 224
    /\ call.edt = <<255, 254>>
    /\ call.out = [value |-> Typed("uint16", 65534), name |-> "InstantaneousGeneratedPower",
                   err |-> FALSE]

C28_SetpointWriteConditions ==
    /\ [][ (WroteNow /\ IsWriteOf(Written, EPCChargePower)) =>
              /\ pc = "setpoint"
              /\ isChargingTimePeriod
              /\ Has(monitoringData, CapacityKey, "uint32")
              /\ Has(monitoringData, RatioKey, "uint8")
              /\ Has(monitoringData, SetpointKey, "uint32")
              /\ RemainingMinutes(now) > 0
              /\ Written.Properties[1].EDT # PutUint32(ObservedSetpoint)
              /\ \A k \in 1..Len(sent) : ~IsWriteOf(sent[k], EPCChargePower)
              /\ pc' = "loop" ]_vars
    /\ [][ (pc = "control" /\ (InhibitWindow \/ ~isChargingTimePeriod)) =>
              /\ pc' = "loop"
              /\ \A k \in 1..Len(sent') : ~IsWriteOf(sent'[k], EPCChargePower) ]_vars

\* the end of a cycle inside the window that raised the set-point from 0 W
\* with its only 0xEB write, answered by Set_Res
C28_Witness ==
    /\ pc = "loop" /\ i > 0
    /\ isChargingTimePeriod
    /\ Len(SelectSeq(sent, LAMBDA f : IsWriteOf(f, EPCChargePower))) = 1
    /\ IsWriteOf(sent[Len(sent)], EPCChargePower)
    /\ Has(monitoringData, SetpointKey, "uint32")
    /\ ObservedSetpoint = 0
    /\ lastOutcome = [kind |-> "frame", esv |-> ESVSet_Res]
    /\ lastChargePowerIncreaseTime = now

\* C29: a mode (0xDA) write inside the window that is answered by Set_Res is
\* sent at least cfg.ModeChangeInhibitMinutes after the mode change recorded
\* before it, and a cycle inside the window sends at most one mode write
C29_ModeWritesSpaced ==
    [][ (isChargingTimePeriod /\ WroteNow /\ IsWriteOf(Written, EPCOperationMode)) =>
          /\ AnsweredSetRes =>
                \/ lastModeChangeTime = Never
                \/ now' - lastModeChangeTime >= cfg.ModeChangeInhibitMinutes * 60
          /\ \A k \in 1..Len(sent) : ~IsWriteOf(sent[k], EPCOperationMode) ]_vars

\* C30: at the end of a cycle inside the window whose surplus, derived from
\* the readings of the cycle, is below cfg.AutoModeThresholdWatts, the last
\* mode (0xDA) write of the cycle, if there is one, carries auto (0x46)
C30_LowSurplusEndsInAuto ==
    (/\ pc = "loop" /\ i > 0
     /\ isChargingTimePeriod
     /\ MetricsAvailable(monitoringData)
     /\ surplusPower < cfg.AutoModeThresholdWatts) =>
        LET modeWrites == SelectSeq(sent, LAMBDA f : IsWriteOf(f, EPCOperationMode))
        IN  modeWrites = << >> \/ IsModeWrite(modeWrites[Len(modeWrites)], ModeAuto)

\* C31: a mode (0xDA) write is sent only in a cycle whose snapshot holds the
\* operation mode read from the battery
C31_ModeWriteNeedsObservedMode ==
    [][ (WroteNow /\ IsWriteOf(Written, EPCOperationMode))
          => Has(monitoringData, ModeKey, "uint8") ]_vars

\* C32: the snapshot, the observed mode and the surplus are empty (0) when a
\* cycle starts, the control logic does not change the snapshot or the
\* observed mode, and a new cycle takes over from the previous one only the
\* two timestamps and the TID counter
C32_SnapshotPerCycle ==
    /\ [][ (pc = "loop" /\ pc' = "collect") =>
              /\ monitoringData' = << >>
              /\ currentOperationMode' = 0
              /\ surplusPower' = 0
              /\ UNCHANGED <<lastModeChangeTime, lastChargePowerIncreaseTime, currentTID>> ]_vars
    /\ [][ (pc \in {"control", "guard", "setpoint"}) =>
              (monitoringData' = monitoringData /\ currentOperationMode' = currentOperationMode) ]_vars

\* the control logic of the second cycle starts on an empty snapshot and an
\* unread mode, after a first cycle that read the devices and changed the mode
C32_Witness ==
    /\ i = 1 /\ pc = "control"
    /\ monitoringData = << >>
    /\ currentOperationMode = 0
    /\ lastModeChangeTime # Never
    /\ currentTID > Len(targets)

\* the Get requests among the requests of the cycle, in order
Gets == SelectSeq(sent, LAMBDA f : f.ESV = ESVGet)

\* C33: the Get requests of a cycle are, in this order, one request per target
\* of the target list with the EPCs of the target: while the loop over the
\* targets is at target k the targets before k have been requested once each,
\* and from the control logic to the end of the loop body all of them have,
\* whatever the outcomes of the transactions were
C33_OneGetPerTarget ==
    /\ \A k \in 1..Len(Gets) : k <= Len(targets) /\ Gets[k] = GetFrame(k, Gets[k].TID)
    /\ pc = "collect" => Len(Gets) = target - 1
    /\ (pc \in {"control", "guard", "setpoint"} \/ (pc = "loop" /\ i > 0))
          => Len(Gets) = Len(targets)

\* the control logic is reached with all four requests sent in a cycle in
\* which one transaction timed out, the battery's mode was not read and the
\* meter answered
C33_Witness ==
    /\ pc = "control"
    /\ Len(Gets) = Len(targets)
    /\ readTimeouts = 1
    /\ ~Has(monitoringData, ModeKey, "uint8")
    /\ Has(monitoringData, GridKey, "int32")


\* the indexes of the properties of frame f that have a value and decode
\* without error
Decodable(f) ==
    { n \in 1..Len(f.Properties) :
        /\ f.Properties[n].EDT # << >>
        /\ ~decodeEDT(f.SEOJ, f.Properties[n].EPC, f.Properties[n].EDT).err }

\* the key of property n of frame f in the snapshot of the target objectName
KeyOf(objectName, f, n) ==
    Key(objectName, decodeEDT(f.SEOJ, f.Properties[n].EPC, f.Properties[n].EDT).name)

\* C34: the snapshot after a response is the snapshot before it plus one entry
\* for every property of a Get_Res that has a non-empty EDT and decodes without
\* error, whatever properties precede it in the frame (wrong length, unknown
\* EPC, PDC = 0); the entry holds the value of the last such property of that
\* name. A Get_SNA or any other ESV leaves the snapshot as it was.
C34_SnapshotEntries ==
    (call.op = "response" /\ call.done) =>
        LET f == call.frame
            name == targets[call.target].ObjectName
            keys == { KeyOf(name, f, n) : n \in Decodable(f) }
        IN  IF f.ESV = ESVGet_Res
            THEN /\ DOMAIN call.out.data = DOMAIN call.before \cup keys
                 /\ \A k \in DOMAIN call.before \ keys : call.out.data[k] = call.before[k]
                 /\ \A n \in Decodable(f) :
                        (\A m \in Decodable(f) : m > n => KeyOf(name, f, m) # KeyOf(name, f, n))
                            => call.out.data[KeyOf(name, f, n)] =
                                   decodeEDT(f.SEOJ, f.Properties[n].EPC, f.Properties[n].EDT).value
            ELSE call.out.data = call.before
C34_Witness ==
    /\ call.op = "response" /\ call.done /\ call.target = 1
    /\ call.frame.ESV = ESVGet_Res /\ call.frame.SEOJ = targets[1].EOJ
    /\ call.frame.Properties = << Prop(228, <<50, 0>>), Prop(218, <<70>>) >>
    /\ call.before = << >>
    /\ DOMAIN call.out.data = {ModeKey}
    /\ call.out.data[ModeKey] = Typed("uint8", 70)


\* C35: a response whose source object is not the target of the transaction
\* adds nothing to the snapshot, so that every entry under a target's name was
\* decoded from a frame of that target
C35_StoredFromOwnObject ==
    (call.op = "response" /\ call.done /\ call.frame.SEOJ # targets[call.target].EOJ)
        => call.out.data = call.before


\* C36: a Get_Res whose TID is not the TID of the request is decoded and
\* stored like one whose TID matches: the snapshot and the observed mode after
\* it are those of the property loop run over its properties
C36_MismatchedTIDStored ==
    (call.op = "response" /\ call.done /\ call.frame.ESV = ESVGet_Res
                          /\ call.frame.TID # call.tid) =>
        LET name == targets[call.target].ObjectName
        IN  /\ call.out.data = StoreProperties(call.before, name, call.frame.SEOJ,
                                                call.frame.Properties, 1)
            /\ call.out.mode = ObservedMode(0, name, call.frame.SEOJ, call.frame.Properties, 1)
C36_Witness ==
    /\ call.op = "response" /\ call.done /\ call.target = 1
    /\ call.frame.ESV = ESVGet_Res /\ call.frame.SEOJ = targets[1].EOJ
    /\ call.frame.TID = call.tid - 1
    /\ call.before = << >>
    /\ Has(call.out.data, ModeKey, "uint8") /\ call.out.data[ModeKey].v = ModeCharge
    /\ Has(call.out.data, SetpointKey, "uint32")
    /\ call.out.mode = ModeCharge


\* C37: a write function returns success only on a Set_Res that carries the
\* TID of the request it sent, so that the timestamps, updated on success
\* only, follow an acknowledgement of that very write
C37_AcknowledgedByOwnTID ==
    (call.op = "write" /\ call.done /\ call.ok) =>
        /\ Received(call.resp).kind = "frame"
        /\ Received(call.resp).frame.ESV = ESVSet_Res
        /\ Received(call.resp).frame.TID = sent[Len(sent)].TID


\* C38: a Get is sent only while no SetC has been sent in the cycle, and a
\* SetC is sent only once the Gets of all four targets are out
C38_ReadsBeforeWrites ==
    /\ [][ (Len(sent') = Len(sent) + 1 /\ sent'[Len(sent')].ESV = ESVGet)
               => SetCs(sent) = << >> ]_vars
    /\ [][ WroteNow => Len(Gets) = Len(targets) ]_vars
C38_Witness ==
    /\ pc = "loop" /\ i = 1
    /\ Len(sent) = Len(targets) + 2
    /\ \A k \in 1..Len(targets) : sent[k].ESV = ESVGet
    /\ IsModeWrite(sent[Len(targets) + 1], ModeCharge)
    /\ IsWriteOf(sent[Len(targets) + 2], EPCChargePower)


\* the charge window of the configuration ends earlier in the day than it starts
WindowWraps == ParseClock(cfg.ChargeEndTime).minutes < ParseClock(cfg.ChargeStartTime).minutes

\* this step sent a SetC of the charge power set-point
WroteSetPointNow == WroteNow /\ IsWriteOf(Written, EPCChargePower)

\* C39: with a window that crosses midnight, a cycle that reaches the target
\* computation at or after the start time of day (before midnight) computes
\* remaining minutes that are not positive and sends no 0xEB write; a 0xEB
\* write is sent in such a window only after midnight, before the end time
C39_NoSetPointBeforeMidnight ==
    /\ [][ (WindowWraps /\ pc = "setpoint"
                /\ ClockOf(now) >= ParseClock(cfg.ChargeStartTime).minutes)
              => (RemainingMinutes(now) <= 0 /\ ~WroteSetPointNow) ]_vars
    /\ [][ (WindowWraps /\ WroteSetPointNow)
              => ClockOf(now) < ParseClock(cfg.ChargeEndTime).minutes ]_vars
C39_Witness ==
    /\ WindowWraps /\ pc = "loop" /\ i = 1 /\ isChargingTimePeriod
    /\ ClockOf(now) >= ParseClock(cfg.ChargeStartTime).minutes
    /\ lastModeChangeTime = Never
    /\ Has(monitoringData, CapacityKey, "uint32") /\ Has(monitoringData, RatioKey, "uint8")
    /\ Has(monitoringData, SetpointKey, "uint32") /\ Get(monitoringData, SetpointKey, "uint32") = 1500
    /\ MetricsAvailable(monitoringData) /\ surplusPower >= 0
    /\ \A k \in 1..Len(sent) : ~IsWriteOf(sent[k], EPCChargePower)


\* C40: while lastChargePowerIncreaseTime has never been set, the set-point
\* block reached with a computed target above the observed set-point sends the
\* SetC of 0xEB carrying the target in that same cycle
C40_FirstIncreaseNotLocked ==
    [][ (TargetAndSetpointKnown /\ lastChargePowerIncreaseTime = Never
            /\ ComputedTarget > ObservedSetpoint)
          => (WroteNow /\ IsPowerWrite(Written, ComputedTarget)) ]_vars
C40_Witness ==
    /\ pc = "loop" /\ i = 1 /\ isChargingTimePeriod
    /\ Has(monitoringData, SetpointKey, "uint32")
    /\ Len(sent) > Len(targets)
    /\ IsWriteOf(sent[Len(sent)], EPCChargePower)
    /\ BigEndianInt32(sent[Len(sent)].Properties[1].EDT) > ObservedSetpoint
    /\ lastChargePowerIncreaseTime = now

=============================================================================
